---------------------------- MODULE Spec2Model ----------------------------
(***************************************************************************)
(* A model of the species-distribution pipeline of                         *)
(* tcc--modeling-of-ecological-niches:                                     *)
(*   - Raster_Standards      (files_for_wget/raster_standardsV2.py)        *)
(*   - Raster_Information_Collector (raster_information_collector.py)      *)
(*   - OneClassSVMModel      (one_class_svm_model.py)                      *)
(*   - Specie                (specie.py), the pages of the occurrences     *)
(*                                                                         *)
(* Coordinates are integers (one unit = one degree); a pixel of width 2    *)
(* therefore has positions strictly inside it.  Floating-point numbers     *)
(* are modelled by exact arithmetic; NaN is a value of its own.  Each      *)
(* component has its own specification (SpecGrid, SpecRead, ...): the      *)
(* program runs them one after the other on independent inputs.            *)
(***************************************************************************)
EXTENDS Integers, Sequences, FiniteSets, TLC

VARIABLES
    \* --- Raster_Standards ------------------------------------------------
    cfg,            \* raster_base_configs handed to __init__
    ref,            \* the reference raster opened by __init__
    rs,             \* the Raster_Standards object (self)
    pcG,            \* "off" | "new" | "built" | "error" | "windowed" | "noinverse"
    window,         \* result of _get_window_from_extent
    \* --- validated read --------------------------------------------------
    raster,         \* the raster opened by get_raster_array
    readOut,        \* what _read_array_standarized did: raise or return
    pcR,            \* "off" | "idle" | "open" | "done"
    \* --- Raster_Information_Collector -----------------------------------
    coorection_limit,          \* self.coorection_limit
    Long, Lat,                 \* the occurrences' coordinates
    ix, iy,                    \* their grid indices (np.searchsorted)
    raster_array,              \* the layer being sampled, rows from the north
    raster_occurrences_array,  \* the values extracted for the occurrences
    walkLog,                   \* per occurrence, the cells the border walk sampled
    walk,                      \* the walk in progress: value, point, offsets, k
    printed,                   \* the messages the walk and the fill have printed
    fillHist,                  \* the vector before and after each residual fill
    pcC,            \* "off" | "start" | "extracted" | "walking" | "treated" | "filled"
                    \* | "IndexError"
    \* --- OneClassSVMModel -----------------------------------------------
    land_reference,            \* self.land_reference, the land mask
    stacked_raster_coverages,  \* the covariate stack: layers of rows of pixels
    species_raster_data,       \* the feature matrix: one row per occurrence
    coordinates,               \* the occurrence coordinates of the shapefile
    K,                         \* the number of folds asked for
    global_mean, global_std,   \* the statistics of each covariate
    kf,                        \* the folds kf.split yields: [train_index, test_index]
    fold,                      \* the number of the fold being run, from 1
    species_bunch,             \* the slices of the fold being run
    clf,                       \* the classifier of the fold being run
    pred_test,                 \* the scores of the fold's test occurrences
    Z,                         \* the fold's land prediction
    fits,                      \* the training matrix of every fit so far
    disk,                      \* the folders created and the arrays saved
    pcM,            \* "off" | "reading" | "loaded" | "stats" | "fold" | "sliced" | "fitted"
                    \* | "tested" | "landed" | "done" | "ValueError" | "IndexError"
    \* --- _update_coverages ----------------------------------------------
    stored,         \* the species' .npy file: whether it exists, and its array
    saved,          \* the coverage of every call so far, in call order
    pcS,            \* "off" | "idle" | "created" | "appended" | "replaced"
    \* --- get_rasters_from_dir -------------------------------------------
    filenames,      \* the directory's files in the order os.walk lists them
    rasters,        \* the files read so far, in the order of the reads
    pos,            \* the number of pairs the loop has taken
    pcD,            \* "off" | "walk" | "stacked" | "returned" | "raised"
                    \* | "ValueError"
    \* --- Specie._managing_complete_species_dataframe --------------------
    remote,         \* the records of the service's result sequence
    self_limit,     \* self._limit, the records asked for in one request
    offset,         \* the offset of the next request
    df,             \* the records collected so far
    endOfRecords,   \* the flag of the last response
    status,         \* the status code of the last response
    requested,      \* every request so far: its offset and the records held then
    pcP             \* "off" | "loop" | "collected" | "TypeError"

gridVars == <<cfg, ref, rs, pcG, window>>
readVars == <<raster, readOut, pcR>>
collVars == <<coorection_limit, Long, Lat, ix, iy, raster_array,
              raster_occurrences_array, walkLog, walk, printed, fillHist, pcC>>
modelVars == <<land_reference, stacked_raster_coverages, species_raster_data,
               coordinates, K, global_mean, global_std, kf, fold, species_bunch,
               clf, pred_test, Z, fits, disk, pcM>>
vars == <<cfg, ref, rs, pcG, window, raster, readOut, pcR,
          coorection_limit, Long, Lat, ix, iy, raster_array,
          raster_occurrences_array, walkLog, walk, printed, fillHist, pcC,
          land_reference, stacked_raster_coverages, species_raster_data,
          coordinates, K, global_mean, global_std, kf, fold, species_bunch,
          clf, pred_test, Z, fits, disk, pcM,
          stored, saved, pcS, filenames, rasters, pos, pcD,
          remote, self_limit, offset, df, endOfRecords, status, requested, pcP>>
storeVars == <<stored, saved, pcS>>
dirVars == <<filenames, rasters, pos, pcD>>
pageVars == <<remote, self_limit, offset, df, endOfRecords, status, requested, pcP>>

Null == [none |-> TRUE]

CollOff ==
    /\ coorection_limit = 0
    /\ Long = <<>> /\ Lat = <<>> /\ ix = <<>> /\ iy = <<>>
    /\ raster_array = <<>> /\ raster_occurrences_array = <<>>
    /\ walkLog = <<>> /\ walk = Null /\ fillHist = <<>>
    /\ printed = <<>>
    /\ pcC = "off"

ModelOff ==
    /\ land_reference = <<>> /\ stacked_raster_coverages = <<>>
    /\ species_raster_data = <<>> /\ coordinates = <<>>
    /\ K = 0
    /\ global_mean = <<>> /\ global_std = <<>>
    /\ kf = Null /\ fold = 0 /\ species_bunch = Null
    /\ clf = Null /\ pred_test = Null /\ Z = Null
    /\ fits = <<>>
    /\ disk = [folders |-> {}, files |-> {}]
    /\ pcM = "off"

\* no file of the species in output_dir
NoFile == [exists |-> FALSE, array |-> <<>>]

StoreOff == stored = NoFile /\ saved = <<>> /\ pcS = "off"

DirOff == filenames = <<>> /\ rasters = <<>> /\ pos = 0 /\ pcD = "off"

PageOff ==
    /\ remote = <<>> /\ self_limit = 0 /\ offset = 0 /\ df = <<>>
    /\ endOfRecords = FALSE /\ status = 0 /\ requested = <<>>
    /\ pcP = "off"

-----------------------------------------------------------------------------
(* Bounds of the model *)

\* largest width and height of the reference raster, in pixels
MaxDim == 3

\* largest width and height of the grid the occurrences are sampled on
GridN == 3

\* largest number of cells of a sampled layer that hold a valid value
MaxValid == 1

\* largest coorection_limit
MaxLimit == 2

\* longest vector handed to the residual fill
MaxLen == 3

\* how often the residual fill is applied to one vector
MaxFills == 2

\* largest number of pixels of the land mask and of a covariate layer
MaxPixels == 2

\* largest number of occurrences of a species
MaxOcc == 3

\* largest number of folds asked for
MaxK == 3

-----------------------------------------------------------------------------
(* Integer helpers *)

Abs(n) == IF n < 0 THEN -n ELSE n

\* floor(n / d) for any d # 0
FloorDiv(n, d) == IF d > 0 THEN n \div d ELSE (-n) \div (-d)

\* ceil(n / d) for any d # 0
CeilDiv(n, d) == -FloorDiv(-n, d)

\* Python's int(n / d) on a float: truncation toward zero
TruncDiv(n, d) ==
    LET q == Abs(n) \div Abs(d)
    IN IF (n < 0) = (d < 0) THEN q ELSE -q

\* np.arange(start, stop, step), step # 0: ceil((stop - start) / step) values
Arange(start, stop, step) ==
    LET n == CeilDiv(stop - start, step)
        len == IF n > 0 THEN n ELSE 0
    IN [i \in 1..len |-> start + (i - 1) * step]

\* np.median of an arithmetic progression, as [nan, twice]: twice the median
\* (the median of an even-length grid lies between two grid values); NaN for
\* an empty array.
Median(grid) ==
    LET n == Len(grid)
    IN IF n = 0 THEN [nan |-> TRUE, twice |-> 0]
       ELSE IF n % 2 = 1 THEN [nan |-> FALSE, twice |-> 2 * grid[(n + 1) \div 2]]
       ELSE [nan |-> FALSE, twice |-> grid[n \div 2] + grid[n \div 2 + 1]]

-----------------------------------------------------------------------------
(* Raster_Standards.__init__ and _construct_grids *)

\* the security margin added around the country limits, in degrees
security_limt == 1

\* Grid steps taken from the configured resolution, as the earlier variant
\* (classes_for_wget/raster_standars.py) did.
ConstructGridsFromConfig(r, c) ==
    <<Arange(r.c, r.c + r.a * r.width, c.resolution),
      Arange(r.f + r.e * r.height, r.f, c.resolution)>>

\* _construct_grids: both axes are stepped by the reference raster's pixel
\* width ref_aff[0]; the configured resolution and limits are not read.
ConstructGrids(r, c) ==
    LET x_min_limit == r.c
        x_max_limit == x_min_limit + r.a * r.width
        y_max_limit == r.f
        y_min_limit == y_max_limit + r.e * r.height
    IN <<Arange(x_min_limit, x_max_limit, r.a),
         Arange(y_min_limit, y_max_limit, r.a)>>

\* __init__: the object after construction.  np.arange with a zero step
\* raises, so the caller guards on r.a # 0.
RasterStandardsInit(c, r) ==
    LET grids == ConstructGrids(r, c)
    IN [security_limt     |-> security_limt,
        x_min_limit       |-> c.country_limits[1] - security_limt,
        x_max_limit       |-> c.country_limits[2] + security_limt,
        y_min_limit       |-> c.country_limits[3] - security_limt,
        y_max_limit       |-> c.country_limits[4] + security_limt,
        resolution        |-> c.resolution,
        crs               |-> c.crs,
        no_data_val       |-> c.no_data_val,
        positive_mask_val |-> c.positive_mask_val,
        negative_mask_val |-> c.positive_mask_val,
        reference_raster  |-> r,
        xgrid             |-> grids[1],
        ygrid             |-> grids[2],
        x_center_point    |-> Median(grids[1]),
        y_center_point    |-> Median(grids[2])]

\* The stop column is computed from the western limit (a copy-paste slip).
WindowFromExtentWestOnly(self, aff) ==
    <<<<TruncDiv(self.y_max_limit - aff.f, aff.e),
        TruncDiv(self.y_min_limit - aff.f, aff.e)>>,
      <<TruncDiv(self.x_min_limit - aff.c, aff.a),
        TruncDiv(self.x_min_limit - aff.c, aff.a)>>>>

\* _get_window_from_extent: ~aff * (x, y) = ((x - c) / a, (y - f) / e) for a
\* transform without rotation; int() truncates toward zero.
WindowFromExtent(self, aff) ==
    LET col_start == TruncDiv(self.x_min_limit - aff.c, aff.a)
        row_start == TruncDiv(self.y_max_limit - aff.f, aff.e)
        col_stop  == TruncDiv(self.x_max_limit - aff.c, aff.a)
        row_stop  == TruncDiv(self.y_min_limit - aff.f, aff.e)
    IN <<<<row_start, row_stop>>, <<col_start, col_stop>>>>

\* The configurations and reference rasters the grid component is run on.
GridConfigs ==
    [resolution        : {1, 2},
     crs               : {4326},
     no_data_val       : {-9999},
     positive_mask_val : {1},
     negative_mask_val : {0},
     country_limits    : {<<x0, x1, y0, -1>> :
                             x0 \in 0..2, x1 \in 0..(2 * MaxDim),
                             y0 \in (-(2 * MaxDim))..0}]

ReferenceRasters ==
    [a : {-1, 0, 1, 2}, e : {-2, -1, 0, 1}, c : {0}, f : {0},
     width : 1..MaxDim, height : 1..MaxDim, dtype : {"float32"}]

InitGrid ==
    /\ cfg \in GridConfigs
    /\ ref \in ReferenceRasters
    /\ rs = Null
    /\ pcG = "new"
    /\ window = Null
    /\ raster = Null /\ readOut = Null /\ pcR = "off"
    /\ CollOff
    /\ ModelOff
    /\ StoreOff /\ DirOff /\ PageOff

\* Raster_Standards(raster_base_configs)
Construct ==
    /\ pcG = "new"
    /\ IF ref.a = 0
         THEN /\ pcG' = "error"
              /\ rs' = rs
         ELSE /\ pcG' = "built"
              /\ rs' = RasterStandardsInit(cfg, ref)
    /\ UNCHANGED <<cfg, ref, window>>
    /\ UNCHANGED <<readVars, collVars, modelVars, storeVars, dirVars, pageVars>>

\* self._get_window_from_extent(self.reference_raster.meta['transform'])
GetWindowFromExtent ==
    /\ pcG = "built"
    /\ IF ref.a = 0 \/ ref.e = 0
         THEN /\ pcG' = "noinverse"
              /\ window' = window
         ELSE /\ pcG' = "windowed"
              /\ window' = WindowFromExtent(rs, ref)
    /\ UNCHANGED <<cfg, ref, rs>>
    /\ UNCHANGED <<readVars, collVars, modelVars, storeVars, dirVars, pageVars>>

NextGrid == Construct \/ GetWindowFromExtent

SpecGrid == InitGrid /\ [][NextGrid]_vars

-----------------------------------------------------------------------------
(* Raster_Standards.get_raster_array and _read_array_standarized            *)
(*                                                                         *)
(* In this component a transform coefficient counts millionths of a degree, *)
(* so that round(x, 5) (to the nearest 10 units) is not the identity.       *)
(* A raster is [a, e, count, crs, nodata, dtype, bands]: nodata is <<>>     *)
(* for None and <<v>> for a declared value; bands holds count arrays, each  *)
(* a sequence of rows.                                                      *)

\* round(x, 5) of x millionths: to the nearest ten, a tie to the even one
Round5(x) ==
    LET q == x \div 10
        r == x % 10
    IN IF r < 5 THEN 10 * q
       ELSE IF r > 5 THEN 10 * (q + 1)
       ELSE IF q % 2 = 0 THEN 10 * q ELSE 10 * (q + 1)

\* raster.nodata != self.no_data_val
NoDataDiffers(self, r) == r.nodata = <<>> \/ r.nodata[1] # self.no_data_val

Raised(k) == [raised |-> TRUE,  check |-> k, array |-> <<>>]
Returned(arr) == [raised |-> FALSE, check |-> 0, array |-> arr]

\* The earlier variant (classes_for_wget/raster_standars.py,
\* read_array_standarized) on a no-data mismatch: the cells holding the
\* raster's no-data value are rewritten to the Grid's and the array returned.
ReadArrayCoercing(self, r) ==
    IF r.e > 0 THEN Raised(1)
    ELSE IF r.count > 1 \/ r.count = 0 THEN Raised(2)
    ELSE IF r.crs # self.crs THEN Raised(3)
    ELSE IF Round5(self.reference_raster.a) # Round5(r.a) THEN Raised(4)
    ELSE IF NoDataDiffers(self, r)
      THEN Returned([i \in DOMAIN r.bands[1] |->
                       [j \in DOMAIN r.bands[1][i] |->
                          IF r.nodata # <<>> /\ r.bands[1][i][j] = r.nodata[1]
                            THEN self.no_data_val ELSE r.bands[1][i][j]]])
    ELSE IF r.dtype # self.reference_raster.dtype THEN Raised(6)
    ELSE Returned(r.bands[1])

\* _read_array_standarized: the checks in the order of the code; the number
\* of the check that raised, or band 1 as read by raster.read(1).
ReadArrayStandarized(self, r) ==
    IF r.e > 0 THEN Raised(1)
    ELSE IF r.count > 1 THEN Raised(2)
    ELSE IF r.count = 0 THEN Raised(2)
    ELSE IF r.crs # self.crs THEN Raised(3)
    ELSE IF ~(Round5(self.reference_raster.a) = Round5(r.a)) THEN Raised(4)
    ELSE IF NoDataDiffers(self, r) THEN Raised(5)
    ELSE IF r.dtype # self.reference_raster.dtype THEN Raised(6)
    ELSE Returned(r.bands[1])

ReadConfigs ==
    [resolution : {8333}, crs : {4326}, no_data_val : {-9999, 0},
     positive_mask_val : {1}, negative_mask_val : {0},
     country_limits : {<<0, 0, 0, 0>>}]

ReadReference ==
    [a |-> 8333, e |-> -8333, c |-> 0, f |-> 0, width |-> 1, height |-> 1,
     dtype |-> "float32"]

\* the band arrays of the rasters read: one row of two cells or two rows of one
BandArrays ==
    {<<<<u, v>>>> : u \in {-9999, 0, 7}, v \in {-9999, 0, 7}}
      \cup {<<<<u>>, <<v>>>> : u \in {-9999, 0, 7}, v \in {-9999, 0, 7}}

Rasters ==
    {[a |-> a, e |-> e, count |-> n, crs |-> crs, nodata |-> nd, dtype |-> dt,
      bands |-> [i \in 1..n |-> IF i = 1 THEN arr ELSE <<<<7, 7>>>>]] :
        a \in {8333, 8334, 8336}, e \in {-8333, 0, 8333}, n \in 0..2,
        crs \in {4326, 3857}, nd \in {<<>>, <<-9999>>, <<0>>},
        dt \in {"float32", "int16"}, arr \in BandArrays}

InitRead ==
    /\ cfg \in ReadConfigs
    /\ ref = ReadReference
    /\ rs = RasterStandardsInit(cfg, ref)
    /\ pcG = "off"
    /\ window = Null
    /\ raster = Null /\ readOut = Null /\ pcR = "idle"
    /\ CollOff
    /\ ModelOff
    /\ StoreOff /\ DirOff /\ PageOff

\* get_raster_array, line 185: raster = rasterio.open(path)
OpenRaster ==
    /\ pcR = "idle"
    /\ raster' \in Rasters
    /\ pcR' = "open"
    /\ UNCHANGED readOut
    /\ UNCHANGED <<gridVars, collVars, modelVars, storeVars, dirVars, pageVars>>

\* get_raster_array, line 187: self._read_array_standarized(raster, name)
ReadArray ==
    /\ pcR = "open"
    /\ readOut' = ReadArrayStandarized(rs, raster)
    /\ pcR' = "done"
    /\ UNCHANGED raster
    /\ UNCHANGED <<gridVars, collVars, modelVars, storeVars, dirVars, pageVars>>

NextRead == OpenRaster \/ ReadArray

SpecRead == InitRead /\ [][NextRead]_vars

-----------------------------------------------------------------------------
(* Numbers of the extracted vectors: exact rationals <<n, d>> in lowest     *)
(* terms with d > 0, and NaN == <<0, 0>>.                                   *)

RECURSIVE Gcd(_, _)
Gcd(m, n) == IF n = 0 THEN m ELSE Gcd(n, m % n)

NaN == <<0, 0>>
IsNaN(p) == p[2] = 0
Num(v) == <<v, 1>>

Norm(n, d) ==
    LET g == Gcd(Abs(n), d)
    IN <<n \div g, d \div g>>

RAdd(p, q) ==
    IF IsNaN(p) \/ IsNaN(q) THEN NaN
    ELSE Norm(p[1] * q[2] + q[1] * p[2], p[2] * q[2])

RECURSIVE RSum(_)
RSum(v) == IF Len(v) = 0 THEN Num(0) ELSE RAdd(v[1], RSum(Tail(v)))

\* np.mean: NaN for an empty array or an array that holds a NaN
NpMean(v) ==
    LET t == RSum(v)
    IN IF Len(v) = 0 \/ IsNaN(t) THEN NaN ELSE Norm(t[1], t[2] * Len(v))

-----------------------------------------------------------------------------
(* Raster_Information_Collector *)

\* the no-data value written into the collector's comparisons
HardCodedNoData == -9999

Sentinel == Num(HardCodedNoData)

\* np.searchsorted(grid, v, side='right'): the first index whose grid value
\* is > v
SearchSortedRight(grid, v) == Cardinality({i \in 1..Len(grid) : grid[i] <= v})

\* np.searchsorted(grid, v) on an ascending grid: the first index (from 0)
\* whose grid value is >= v, len(grid) when there is none
SearchSorted(grid, v) == Cardinality({i \in 1..Len(grid) : grid[i] < v})

\* numpy's index normalisation on one axis of length n: a negative index
\* counts from the end; -1 when the index is out of bounds (IndexError)
NpIndex(k, n) ==
    LET j == IF k < 0 THEN k + n ELSE k
    IN IF 0 <= j /\ j < n THEN j ELSE -1

Height(arr) == Len(arr)
Width(arr) == IF Len(arr) = 0 THEN 0 ELSE Len(arr[1])

InBounds(arr, r, c) ==
    NpIndex(r, Height(arr)) >= 0 /\ NpIndex(c, Width(arr)) >= 0

\* arr[r, c] for in-bounds Python indices
At(arr, r, c) == arr[NpIndex(r, Height(arr)) + 1][NpIndex(c, Width(arr)) + 1]

\* point >= center and point <= center; both are false for a NaN center
GeCenter(p, center) == ~center.nan /\ 2 * p >= center.twice
LeCenter(p, center) == ~center.nan /\ 2 * p <= center.twice

\* the body of a quadrant test: the point moves by one resolution and the
\* index offsets by one, sx on x and sy on y
Shift(self, m, sx, sy) ==
    [x |-> m.x + sx * self.resolution, y |-> m.y + sy * self.resolution,
     incx |-> m.incx + sx, incy |-> m.incy + sy]

\* lines 55-59, 60-64, 65-69 and 70-74: the four quadrant tests
QuadrantIf1(self, m) ==
    IF GeCenter(m.x, self.x_center_point) /\ GeCenter(m.y, self.y_center_point)
      THEN Shift(self, m, -1, -1) ELSE m

QuadrantIf2(self, m) ==
    IF GeCenter(m.x, self.x_center_point) /\ LeCenter(m.y, self.y_center_point)
      THEN Shift(self, m, -1, 1) ELSE m

QuadrantIf3(self, m) ==
    IF LeCenter(m.x, self.x_center_point) /\ LeCenter(m.y, self.y_center_point)
      THEN Shift(self, m, 1, 1) ELSE m

QuadrantIf4(self, m) ==
    IF LeCenter(m.x, self.x_center_point) /\ GeCenter(m.y, self.y_center_point)
      THEN Shift(self, m, 1, -1) ELSE m

\* One pass through the four quadrant tests of the walk (lines 55-74).  The
\* tests are separate if statements: each reads the point as the tests
\* before it left it.
QuadrantMoves(self, m) ==
    QuadrantIf4(self, QuadrantIf3(self, QuadrantIf2(self, QuadrantIf1(self, m))))

\* line 83: the message printed when the walk changes a value, with the
\* occurrence's point and the point the walk has reached
ChangedMessage(base, m) ==
    [changed_from |-> <<base.x, base.y>>, to |-> <<m.x, m.y>>]

\* lines 76-83 of a pass: the cell at the offsets m is sampled; w is
\* [elem, m, k, cells, base, out, err]: the value held for the occurrence,
\* the point and offsets, the iteration count, the cells sampled so far, the
\* occurrence's own point, the messages printed and whether an index fell
\* outside the array.
WalkSample(arr, ix_i, iy_i, w, m) ==
    IF ~InBounds(arr, -(iy_i + m.incy), ix_i + m.incx)
      THEN [w EXCEPT !.err = TRUE, !.m = m]
      ELSE [elem  |-> IF At(arr, -(iy_i + m.incy), ix_i + m.incx) # Sentinel
                        THEN At(arr, -(iy_i + m.incy), ix_i + m.incx)
                        ELSE w.elem,
            m     |-> m,
            k     |-> w.k + 1,
            cells |-> Append(w.cells,
                        [k |-> w.k, incx |-> m.incx, incy |-> m.incy,
                         row |-> NpIndex(-(iy_i + m.incy), Height(arr)),
                         col |-> NpIndex(ix_i + m.incx, Width(arr)),
                         value |-> At(arr, -(iy_i + m.incy), ix_i + m.incx)]),
            base  |-> w.base,
            out   |-> IF At(arr, -(iy_i + m.incy), ix_i + m.incx) # Sentinel
                        THEN Append(w.out, ChangedMessage(w.base, m))
                        ELSE w.out,
            err   |-> FALSE]

\* The loop runs one pass more than the limit allows.
WalkContinuesPastLimit(limit, w) == ~w.err /\ w.elem = Sentinel /\ w.k <= limit

\* lines 48 and 54: the walk of an occurrence goes on while the value held
\* for it is -9999.0 and k < coorection_limit; an IndexError ends it
WalkContinues(limit, w) == ~w.err /\ w.elem = Sentinel /\ w.k < limit

\* One pass of the while loop of the walk (lines 54-84).  A pass whose loop
\* condition is false leaves w as it is.
WalkStep(self, limit, arr, ix_i, iy_i, w) ==
    IF ~WalkContinues(limit, w) THEN w
    ELSE WalkSample(arr, ix_i, iy_i, w, QuadrantMoves(self, w.m))

\* The while loop: k counts up to correction_limit, so the loop makes at
\* most that many passes.
WalkLoop(self, limit, arr, ix_i, iy_i, w) ==
    LET run[j \in 0..limit] ==
            IF j = 0 THEN w ELSE WalkStep(self, limit, arr, ix_i, iy_i, run[j - 1])
    IN run[limit]

\* lines 49-52: the walk of occurrence i before its first pass
WalkStart(lon, lat, vals, i) ==
    [elem |-> vals[i],
     m |-> [x |-> lon[i], y |-> lat[i], incx |-> 0, incy |-> 0],
     k |-> 0, cells |-> <<>>,
     base |-> [x |-> lon[i], y |-> lat[i]], out |-> <<>>,
     err |-> FALSE]

\* the walk of occurrence i: untouched when its value is not the sentinel
WalkOf(self, limit, lon, lat, cols, rows, arr, vals, i) ==
    IF vals[i] = Sentinel
      THEN WalkLoop(self, limit, arr, cols[i], rows[i], WalkStart(lon, lat, vals, i))
      ELSE WalkStart(lon, lat, vals, i)

\* the messages of the walks, in the order of the occurrences
PrintedBy(walks) ==
    LET cat[j \in 0..Len(walks)] ==
            IF j = 0 THEN <<>> ELSE cat[j - 1] \o walks[j].out
    IN cat[Len(walks)]

\* what the walks of all occurrences leave behind: [err, vals, log, out]
WalkResults(walks) ==
    [err  |-> \E i \in DOMAIN walks : walks[i].err,
     vals |-> [i \in DOMAIN walks |-> walks[i].elem],
     log  |-> [i \in DOMAIN walks |-> walks[i].cells],
     out  |-> PrintedBy(walks)]

\* _treat_boarder_points: an IndexError leaves the function at the first
\* occurrence whose walk indexes outside the array.
TreatBoarderPoints(self, limit, lon, lat, cols, rows, arr, vals) ==
    WalkResults([i \in 1..Len(vals) |->
                   WalkOf(self, limit, lon, lat, cols, rows, arr, vals, i)])

\* The mask is forgotten in the mean and every value at or below the
\* sentinel is taken for missing.
FillWithMeanOfAll(vals) ==
    LET mean_value == NpMean(vals)
    IN [i \in 1..Len(vals) |->
          IF ~IsNaN(vals[i]) /\ vals[i][1] <= HardCodedNoData * vals[i][2]
            THEN mean_value ELSE vals[i]]

\* The mean is taken over every entry, the sentinel entries included.
FillWithUnmaskedMean(vals) ==
    LET mean_value == NpMean(vals)
    IN [i \in 1..Len(vals) |-> IF vals[i] = Sentinel THEN mean_value ELSE vals[i]]

\* _fill_peristent_no_data_values_with_mean: the mean of the entries other
\* than -9999.0 replaces every entry equal to -9999.0.
FillPersistentNoData(vals) ==
    LET mean_value == NpMean(SelectSeq(vals, LAMBDA v : v # Sentinel))
    IN [i \in 1..Len(vals) |-> IF vals[i] = Sentinel THEN mean_value ELSE vals[i]]

\* The layers sampled: GridN x GridN cells, all no-data but for at most
\* MaxValid cells; a valid cell holds a value that names it.
CellValue(n, r, c) == Num(1 + r * n + c)

Layers(n) ==
    {[r \in 1..n |-> [c \in 1..n |->
         IF <<r, c>> \in valid THEN CellValue(n, r - 1, c - 1) ELSE Sentinel]] :
       valid \in {S \in SUBSET ((1..n) \X (1..n)) : Cardinality(S) <= MaxValid}}

\* the Grid of the collector: n x n square pixels of width 2, north-up
CollectConfig ==
    [resolution |-> 2, crs |-> 4326, no_data_val |-> HardCodedNoData,
     positive_mask_val |-> 1, negative_mask_val |-> 0,
     country_limits |-> <<0, 0, 0, 0>>]

CollectReference(n) ==
    [a |-> 2, e |-> -2, c |-> 0, f |-> 2 * n, width |-> n, height |-> n,
     dtype |-> "float32"]

InitCollect ==
    /\ cfg = CollectConfig
    /\ \E n \in 2..GridN :
          /\ ref = CollectReference(n)
          /\ raster_array \in Layers(n)
          /\ \E x \in 0..(2 * n), y \in 0..(2 * n) : Long = <<x>> /\ Lat = <<y>>
    /\ rs = RasterStandardsInit(cfg, ref)
    /\ pcG = "off" /\ window = Null
    /\ ModelOff
    /\ StoreOff /\ DirOff /\ PageOff
    /\ raster = Null /\ readOut = Null /\ pcR = "off"
    /\ coorection_limit \in 0..MaxLimit
    /\ ix = <<>> /\ iy = <<>>
    /\ raster_occurrences_array = <<>>
    /\ walkLog = <<>> /\ walk = Null /\ fillHist = <<>>
    /\ printed = <<>>
    /\ pcC = "start"

\* save_coverges_to_numpy, lines 118-128: the indices and the direct lookup
\* raster_array[-iy, ix]
Extract ==
    /\ pcC = "start"
    /\ LET cols == [i \in 1..Len(Long) |-> SearchSorted(rs.xgrid, Long[i])]
           rows == [i \in 1..Len(Lat) |-> SearchSorted(rs.ygrid, Lat[i])]
       IN /\ ix' = cols
          /\ iy' = rows
          /\ IF \A i \in 1..Len(Long) : InBounds(raster_array, -rows[i], cols[i])
               THEN /\ raster_occurrences_array' =
                          [i \in 1..Len(Long) |-> At(raster_array, -rows[i], cols[i])]
                    /\ pcC' = "extracted"
               ELSE /\ raster_occurrences_array' = raster_occurrences_array
                    /\ pcC' = "IndexError"
    /\ UNCHANGED <<coorection_limit, Long, Lat, raster_array, walk, walkLog, fillHist,
                   printed>>
    /\ UNCHANGED <<gridVars, readVars, modelVars, storeVars, dirVars, pageVars>>

\* save_coverges_to_numpy, line 131: self._treat_boarder_points(...)
TreatBoarder ==
    /\ pcC = "extracted"
    /\ \E t \in {TreatBoarderPoints(rs, coorection_limit, Long, Lat, ix, iy,
                                     raster_array, raster_occurrences_array)} :
          /\ walkLog' = t.log
          /\ printed' = printed \o t.out
          /\ raster_occurrences_array' = t.vals
          /\ pcC' = IF t.err THEN "IndexError" ELSE "treated"
    /\ UNCHANGED <<coorection_limit, Long, Lat, ix, iy, raster_array, walk, fillHist>>
    /\ UNCHANGED <<gridVars, readVars, modelVars, storeVars, dirVars, pageVars>>

\* save_coverges_to_numpy, line 135:
\* self._fill_peristent_no_data_values_with_mean(raster_occurrences_array)
FillPersistent ==
    /\ pcC = "treated"
    /\ raster_occurrences_array' = FillPersistentNoData(raster_occurrences_array)
    /\ fillHist' = <<raster_occurrences_array, raster_occurrences_array'>>
    /\ pcC' = "filled"
    /\ UNCHANGED <<coorection_limit, Long, Lat, ix, iy, raster_array, walk, walkLog,
                   printed>>
    /\ UNCHANGED <<gridVars, readVars, modelVars, storeVars, dirVars, pageVars>>

NextCollect == Extract \/ TreatBoarder \/ FillPersistent

SpecCollect == InitCollect /\ [][NextCollect]_vars

\* the no-data values a Grid is configured with
NoDataVals == {HardCodedNoData, 0}

\* a layer the validated read returns for a Grid configured with nodata: its
\* missing cells hold that value
LayersWith(n, nodata) ==
    {[r \in 1..n |-> [c \in 1..n |->
         IF layer[r][c] = Sentinel THEN Num(nodata) ELSE layer[r][c]]] :
       layer \in Layers(n)}

\* save_coverges_to_numpy under a Grid of either configured no-data value
InitCollectConfigured ==
    /\ \E nodata \in NoDataVals :
          /\ cfg = [CollectConfig EXCEPT !.no_data_val = nodata]
          /\ \E n \in 2..GridN :
                /\ ref = CollectReference(n)
                /\ raster_array \in LayersWith(n, nodata)
                /\ \E x \in 0..(2 * n), y \in 0..(2 * n) : Long = <<x>> /\ Lat = <<y>>
    /\ rs = RasterStandardsInit(cfg, ref)
    /\ pcG = "off" /\ window = Null
    /\ ModelOff
    /\ StoreOff /\ DirOff /\ PageOff
    /\ raster = Null /\ readOut = Null /\ pcR = "off"
    /\ coorection_limit \in 0..MaxLimit
    /\ ix = <<>> /\ iy = <<>>
    /\ raster_occurrences_array = <<>>
    /\ walkLog = <<>> /\ walk = Null /\ fillHist = <<>>
    /\ printed = <<>>
    /\ pcC = "start"

SpecCollectConfigured == InitCollectConfigured /\ [][NextCollect]_vars

\* _treat_boarder_points pass by pass, for the one occurrence of an
\* extraction that succeeded: the state at line 47
InitWalk ==
    /\ cfg = CollectConfig
    /\ \E n \in 2..GridN :
          /\ ref = CollectReference(n)
          /\ raster_array \in Layers(n)
          /\ \E x \in 0..(2 * n), y \in 0..(2 * n) : Long = <<x>> /\ Lat = <<y>>
    /\ rs = RasterStandardsInit(cfg, ref)
    /\ pcG = "off" /\ window = Null
    /\ ModelOff
    /\ StoreOff /\ DirOff /\ PageOff
    /\ raster = Null /\ readOut = Null /\ pcR = "off"
    /\ coorection_limit \in 0..MaxLimit
    /\ ix = <<SearchSorted(rs.xgrid, Long[1])>>
    /\ iy = <<SearchSorted(rs.ygrid, Lat[1])>>
    /\ InBounds(raster_array, -iy[1], ix[1])
    /\ raster_occurrences_array = <<At(raster_array, -iy[1], ix[1])>>
    /\ walk = WalkStart(Long, Lat, raster_occurrences_array, 1)
    /\ walkLog = <<>> /\ fillHist = <<>>
    /\ printed = <<>>
    /\ pcC = "walking"

\* one pass of the while loop (lines 54-84): the quadrant tests, the sample
\* and, for a value other than -9999.0, the write into the vector
WalkPass ==
    /\ pcC = "walking"
    /\ WalkContinues(coorection_limit, walk)
    /\ \E m1 \in {QuadrantIf1(rs, walk.m)} :
       \E m2 \in {QuadrantIf2(rs, m1)} :
       \E m3 \in {QuadrantIf3(rs, m2)} :
       \E m4 \in {QuadrantIf4(rs, m3)} :
       \E w \in {WalkSample(raster_array, ix[1], iy[1], walk, m4)} :
          /\ walk' = w
          /\ raster_occurrences_array' = <<w.elem>>
          /\ walkLog' = <<w.cells>>
          /\ printed' = w.out
    /\ UNCHANGED <<coorection_limit, Long, Lat, ix, iy, raster_array, fillHist, pcC>>
    /\ UNCHANGED <<gridVars, readVars, modelVars, storeVars, dirVars, pageVars>>

\* the loop condition is false, or the sample raised: the function returns
\* the vector (line 85) or the IndexError leaves it
WalkReturn ==
    /\ pcC = "walking"
    /\ ~WalkContinues(coorection_limit, walk)
    /\ pcC' = IF walk.err THEN "IndexError" ELSE "treated"
    /\ UNCHANGED <<coorection_limit, Long, Lat, ix, iy, raster_array,
                   raster_occurrences_array, walkLog, walk, fillHist, printed>>
    /\ UNCHANGED <<gridVars, readVars, modelVars, storeVars, dirVars, pageVars>>

NextWalk == WalkPass \/ WalkReturn

SpecWalk == InitWalk /\ [][NextWalk]_vars

\* the interpreter runs the function to its end: a pass or the return that
\* can be taken is taken
SpecWalkFair == SpecWalk /\ WF_vars(NextWalk)

\* The residual fill on its own: any vector may come out of the border walk.
FillValues == {HardCodedNoData - 1, HardCodedNoData, HardCodedNoData + 1, 0, 4}

FillVectors ==
    UNION {[1..n -> {Num(v) : v \in FillValues}] : n \in 0..MaxLen}

InitFill ==
    /\ cfg = CollectConfig
    /\ ref = CollectReference(2)
    /\ rs = RasterStandardsInit(cfg, ref)
    /\ pcG = "off" /\ window = Null
    /\ ModelOff
    /\ StoreOff /\ DirOff /\ PageOff
    /\ raster = Null /\ readOut = Null /\ pcR = "off"
    /\ coorection_limit = 0
    /\ Long = <<>> /\ Lat = <<>> /\ ix = <<>> /\ iy = <<>>
    /\ raster_array = <<>>
    /\ raster_occurrences_array \in FillVectors
    /\ walkLog = <<>> /\ walk = Null /\ fillHist = <<>>
    /\ printed = <<>>
    /\ pcC = "treated"

\* _fill_peristent_no_data_values_with_mean applied once more to its result
FillAgain ==
    /\ pcC = "filled"
    /\ Len(fillHist) <= MaxFills
    /\ raster_occurrences_array' = FillPersistentNoData(raster_occurrences_array)
    /\ fillHist' = Append(fillHist, raster_occurrences_array')
    /\ UNCHANGED <<coorection_limit, Long, Lat, ix, iy, raster_array, walk, walkLog,
                   printed, pcC>>
    /\ UNCHANGED <<gridVars, readVars, modelVars, storeVars, dirVars, pageVars>>

NextFill == FillPersistent \/ FillAgain

SpecFill == InitFill /\ [][NextFill]_vars

-----------------------------------------------------------------------------
(* OneClassSVMModel                                                         *)
(*                                                                         *)
(* A pixel or feature value is an exact rational.  A standard deviation is *)
(* kept as the variance it is the root of, [root |-> variance].  A         *)
(* standardized value (x - mean) / std is [kind, diff, root]: kind is      *)
(* "nan", "inf" or "fin", and a finite value is diff / sqrt(root).  Index  *)
(* arrays count from 1.                                                    *)

RSub(p, q) ==
    IF IsNaN(p) \/ IsNaN(q) THEN NaN
    ELSE Norm(p[1] * q[2] - q[1] * p[2], p[2] * q[2])

RMul(p, q) ==
    IF IsNaN(p) \/ IsNaN(q) THEN NaN ELSE Norm(p[1] * q[1], p[2] * q[2])

\* p > v and p <= v for an integer v; both are false for a NaN
GreaterThan(p, v) == ~IsNaN(p) /\ p[1] > v * p[2]
AtMost(p, v) == ~IsNaN(p) /\ p[1] <= v * p[2]

Sgn(n) == IF n > 0 THEN 1 ELSE IF n < 0 THEN -1 ELSE 0

\* the numbers of a set, ascending
Ascending(S) ==
    [i \in 1..Cardinality(S) |->
        CHOOSE x \in S : Cardinality({y \in S : y < x}) = i - 1]

\* arr[index] along the first axis
Take(arr, index) == [i \in 1..Len(index) |-> arr[index[i]]]

\* the pixels of a layer in row-major order
Flatten(layer) ==
    [p \in 1..(Height(layer) * Width(layer)) |->
        layer[((p - 1) \div Width(layer)) + 1][((p - 1) % Width(layer)) + 1]]

\* lines 146 and 152: column[column > no_data_val]
ValidPixels(self, layer) ==
    SelectSeq(Flatten(layer), LAMBDA v : GreaterThan(v, self.no_data_val))

Squares(v) == [i \in 1..Len(v) |-> RMul(v[i], v[i])]

\* np.std: the root of mean(x^2) - mean(x)^2; NaN for an empty array
NpStd(v) == [root |-> RSub(NpMean(Squares(v)), RMul(NpMean(v), NpMean(v)))]

\* The mean of every pixel of each covariate, the no-data ones included.
GlobalMeanUnmasked(self, stack) ==
    [k \in 1..Len(stack) |-> NpMean(Flatten(stack[k]))]

\* lines 143-154: the mean and the standard deviation of each covariate
GlobalMean(self, stack) ==
    [k \in 1..Len(stack) |-> NpMean(ValidPixels(self, stack[k]))]

GlobalStd(self, stack) ==
    [k \in 1..Len(stack) |-> NpStd(ValidPixels(self, stack[k]))]

Zero == [kind |-> "fin", diff |-> Num(0), root |-> Num(1)]

\* (x - mean) / std in floating point: NaN when an operand is NaN or for
\* 0 / 0, an infinity for a non-zero difference over a zero deviation
Scaled(x, mean, std) ==
    IF IsNaN(x) \/ IsNaN(mean) \/ IsNaN(std.root)
      THEN [kind |-> "nan", diff |-> NaN, root |-> NaN]
    ELSE IF std.root = Num(0)
      THEN IF x = mean THEN [kind |-> "nan", diff |-> NaN, root |-> NaN]
           ELSE [kind |-> "inf", diff |-> RSub(x, mean), root |-> Num(0)]
    ELSE IF x = mean THEN Zero
    ELSE [kind |-> "fin", diff |-> RSub(x, mean), root |-> std.root]

\* arr[np.isnan(arr)] = 0
NanToZero(z) == IF z.kind = "nan" THEN Zero ELSE z

\* lines 70-71, 90-92 and 111-112: the rows standardized, NaN set to 0
Standardize(rows, mean, std) ==
    [i \in 1..Len(rows) |->
        [k \in 1..Len(rows[i]) |-> NanToZero(Scaled(rows[i][k], mean[k], std[k]))]]

\* The scores a decision function returns in the model.  A fitted
\* classifier is [train, f]: the matrix it was fitted on and its decision
\* function, which scores a row by the sign of its first non-zero feature.
Scores == {HardCodedNoData, -1, 2}

RowSigns == {-1, 0, 1}

Classifiers == [RowSigns -> Scores]

RowClass(row) ==
    IF \A k \in 1..Len(row) : row[k].diff[1] = 0 THEN 0
    ELSE Sgn(row[CHOOSE k \in 1..Len(row) :
                   /\ row[k].diff[1] # 0
                   /\ \A j \in 1..(k - 1) : row[j].diff[1] = 0].diff[1])

\* sklearn's validation of the matrix handed to fit and decision_function:
\* no row at all, or an infinity, is a ValueError
Rejected(X) ==
    \/ Len(X) = 0
    \/ \E i \in 1..Len(X) : \E k \in 1..Len(X[i]) : X[i][k].kind = "inf"

\* clf.decision_function(X) for a matrix that passes the validation
DecisionFunction(c, X) == [i \in 1..Len(X) |-> c.f[RowClass(X[i])]]

\* fit, lines 68-74: the matrix handed to clf.fit
FitMatrix(bunch, mean, std) == Standardize(bunch.raster_data_train, mean, std)

\* The training rows are scored in place of the held-out rows.
PredictTrainOccurences(bunch, c, mean, std) ==
    IF Rejected(Standardize(bunch.raster_data_train, mean, std))
      THEN [err |-> "ValueError", pred |-> <<>>]
      ELSE [err |-> "",
            pred |-> DecisionFunction(c, Standardize(bunch.raster_data_train, mean, std))]

\* predict_test_occurences, lines 108-114: [err, pred]
PredictTestOccurences(bunch, c, mean, std) ==
    IF Rejected(Standardize(bunch.raster_data_test, mean, std))
      THEN [err |-> "ValueError", pred |-> <<>>]
      ELSE [err |-> "",
            pred |-> DecisionFunction(c, Standardize(bunch.raster_data_test, mean, std))]

\* line 83: np.where(land_reference == positive_mask_val), the pixels
\* <<row, column>> in row-major order
LandIdx(self, mask) ==
    SelectSeq(Flatten([r \in 1..Height(mask) |-> [c \in 1..Width(mask) |-> <<r, c>>]]),
              LAMBDA p : mask[p[1]][p[2]] = self.positive_mask_val)

\* line 86 raises an IndexError unless every land pixel is a pixel of the stack
IdxInStack(idx, stack) ==
    \A i \in 1..Len(idx) :
        idx[i][1] <= Height(stack[1]) /\ idx[i][2] <= Width(stack[1])

\* lines 86-88: the covariates of the land pixels, every value at or below
\* no_data_val replaced by the mean of its covariate
LandMatrix(self, idx, stack, mean) ==
    [i \in 1..Len(idx) |->
        [k \in 1..Len(stack) |->
            IF AtMost(stack[k][idx[i][1]][idx[i][2]], self.no_data_val)
              THEN mean[k]
              ELSE stack[k][idx[i][1]][idx[i][2]]]]

\* The highest score in place of the lowest.
MaxOf(v) == CHOOSE x \in {v[i] : i \in 1..Len(v)} : \A i \in 1..Len(v) : x >= v[i]

\* global_pred.min()
MinOf(v) == CHOOSE x \in {v[i] : i \in 1..Len(v)} : \A i \in 1..Len(v) : x <= v[i]

\* lines 97-98: np.ones(shape) * global_pred.min()
Filled(rows, cols, v) == [r \in 1..rows |-> [c \in 1..cols |-> v]]

\* line 99: Z[idx[0], idx[1]] = global_pred
ScatterScores(Zm, idx, pred) ==
    [r \in 1..Height(Zm) |-> [c \in 1..Width(Zm) |->
        IF \E i \in 1..Len(idx) : idx[i] = <<r, c>>
          THEN pred[CHOOSE i \in 1..Len(idx) : idx[i] = <<r, c>>]
          ELSE Zm[r][c]]]

\* Z[mask == value] = v, for a mask of the shape of Z
Overwrite(Zm, mask, value, v) ==
    [r \in 1..Height(Zm) |-> [c \in 1..Width(Zm) |->
        IF mask[r][c] = value THEN v ELSE Zm[r][c]]]

\* line 104 is left out: the pixels outside the land keep the lowest score
LandPredictionUnmasked(self, mask, stack, idx, pred) ==
    ScatterScores(Filled(Height(stack[1]), Width(stack[1]), MinOf(pred)), idx, pred)

\* lines 97-104: the raster built from the scores of the land pixels
LandPrediction(self, mask, stack, idx, pred) ==
    Overwrite(ScatterScores(Filled(Height(stack[1]), Width(stack[1]), MinOf(pred)),
                            idx, pred),
              mask, 0, self.no_data_val)

\* lines 93-104 for the standardized land matrix X: the decision function
\* raises a ValueError for a matrix it rejects, and the boolean index of
\* line 104 an IndexError for a mask that has not the shape of Z
LandScores(self, mask, stack, c, idx, X) ==
    IF Rejected(X) THEN [err |-> "ValueError", Z |-> Null]
    ELSE IF Height(mask) # Height(stack[1]) \/ Width(mask) # Width(stack[1])
      THEN [err |-> "IndexError", Z |-> Null]
    ELSE [err |-> "",
          Z |-> LandPrediction(self, mask, stack, idx, DecisionFunction(c, X))]

\* predict_land, lines 76-106: [err, Z]
PredictLand(self, mask, stack, c, mean, std) ==
    IF ~IdxInStack(LandIdx(self, mask), stack)
      THEN [err |-> "IndexError", Z |-> Null]
      ELSE LandScores(self, mask, stack, c, LandIdx(self, mask),
                      Standardize(LandMatrix(self, LandIdx(self, mask), stack, mean),
                                  mean, std))

\* The folds leave out the remainder of n / k: every fold has n \div k
\* test indices.
KFoldSplitWithoutRemainder(n, k, perm) ==
    [j \in 1..k |->
        [train_index |-> Ascending((1..n) \
              {perm[p] : p \in ((j - 1) * (n \div k) + 1)..(j * (n \div k))}),
         test_index |-> Ascending(
              {perm[p] : p \in ((j - 1) * (n \div k) + 1)..(j * (n \div k))})]]

\* sklearn's KFold: the first n % k folds have n \div k + 1 test indices,
\* the others n \div k
FoldSize(n, k, j) == (n \div k) + (IF j <= n % k THEN 1 ELSE 0)

\* the number of indices in the folds before fold j
FoldOffset(n, k, j) ==
    (j - 1) * (n \div k) + (IF j - 1 <= n % k THEN j - 1 ELSE n % k)

\* the test indices of fold j: a slice of the shuffled indices
TestIndices(n, k, perm, j) ==
    {perm[p] : p \in (FoldOffset(n, k, j) + 1)..(FoldOffset(n, k, j) + FoldSize(n, k, j))}

\* lines 159-162, KFold(n_splits=k, shuffle=True).split of n rows with the
\* shuffle perm: fold j yields the indices outside its test slice and the
\* indices of the slice, both ascending
KFoldSplit(n, k, perm) ==
    [j \in 1..k |->
        [train_index |-> Ascending((1..n) \ TestIndices(n, k, perm, j)),
         test_index |-> Ascending(TestIndices(n, k, perm, j))]]

\* lines 169-175: the slices of one fold
SpeciesBunch(data, coords, f) ==
    [raster_data_train |-> Take(data, f.train_index),
     raster_data_test |-> Take(data, f.test_index),
     coords_train |-> Take(coords, f.train_index),
     coords_test |-> Take(coords, f.test_index)]

\* coordinates[index] raises an IndexError for an index past the last row
IndexInRange(index, n) == \A i \in 1..Len(index) : index[i] <= n

\* save_nparray_to_folder (utils.py, lines 19-24): the file written, with
\* the shape it prints
Saved(folder, filename, shape) ==
    [folder |-> folder, filename |-> filename, shape |-> shape]

\* Every fold saves its arrays into the folder of the first fold.
FoldFilesInFirstFolder(i, bunch, pred, Zm) ==
    {Saved(1, "Land_Prediction", <<Height(Zm), Width(Zm)>>),
     Saved(1, "Test_Prediction", <<Len(pred)>>),
     Saved(1, "Coords_Train", <<Len(bunch.coords_train), 2>>),
     Saved(1, "Coords_Test", <<Len(bunch.coords_test), 2>>),
     Saved(1, "Species_Raster_Data_Train",
           <<Len(bunch.raster_data_train), Width(bunch.raster_data_train)>>),
     Saved(1, "Species_Raster_Data_Test",
           <<Len(bunch.raster_data_test), Width(bunch.raster_data_test)>>)}

\* lines 187-199: the six arrays a fold saves
FoldFiles(i, bunch, pred, Zm) ==
    {Saved(i, "Land_Prediction", <<Height(Zm), Width(Zm)>>),
     Saved(i, "Test_Prediction", <<Len(pred)>>),
     Saved(i, "Coords_Train", <<Len(bunch.coords_train), 2>>),
     Saved(i, "Coords_Test", <<Len(bunch.coords_test), 2>>),
     Saved(i, "Species_Raster_Data_Train",
           <<Len(bunch.raster_data_train), Width(bunch.raster_data_train)>>),
     Saved(i, "Species_Raster_Data_Test",
           <<Len(bunch.raster_data_test), Width(bunch.raster_data_test)>>)}

\* The Grid of the model: the land is marked by positive
ModelConfig(positive) ==
    [resolution |-> 2, crs |-> 4326, no_data_val |-> HardCodedNoData,
     positive_mask_val |-> positive, negative_mask_val |-> 0,
     country_limits |-> <<0, 0, 0, 0>>]

\* the shapes <<rows, columns>> of the masks and layers
Shapes ==
    {sh \in (1..MaxPixels) \X (1..MaxPixels) : sh[1] * sh[2] <= MaxPixels}

Matrices(sh, values) == [1..sh[1] -> [1..sh[2] -> values]]

\* the values of a mask: not land, land in the usual configuration, another
MaskValues == {0, 1, 2}

\* the values of a pixel: no data, or one of two measurements
PixelValues == {Num(HardCodedNoData), Num(1), Num(3)}

\* the covariate stacks of a shape: one layer, or a constant layer before it
Stacks(sh) ==
    {<<layer>> : layer \in Matrices(sh, PixelValues)}
      \cup {<<Filled(sh[1], sh[2], Num(1)), layer>> : layer \in Matrices(sh, PixelValues)}

\* the state shared by the specifications of the model: no run of the other
\* components
OthersOff ==
    /\ pcG = "off" /\ window = Null
    /\ raster = Null /\ readOut = Null /\ pcR = "off"
    /\ CollOff
    /\ StoreOff /\ DirOff /\ PageOff

\* predict_land on its own: any mask, stack and fitted classifier, with the
\* statistics of the stack
InitLand ==
    /\ \E positive \in {0, 1} : cfg = ModelConfig(positive)
    /\ ref = CollectReference(2)
    /\ rs = RasterStandardsInit(cfg, ref)
    /\ OthersOff
    /\ \E sh \in Shapes : land_reference \in Matrices(sh, MaskValues)
    /\ \E sh \in Shapes : stacked_raster_coverages \in Stacks(sh)
    /\ species_raster_data = <<>> /\ coordinates = <<>>
    /\ K = 0
    /\ global_mean = GlobalMean(rs, stacked_raster_coverages)
    /\ global_std = GlobalStd(rs, stacked_raster_coverages)
    /\ kf = Null /\ fold = 0 /\ species_bunch = Null
    /\ \E f \in Classifiers : clf = [train |-> <<>>, f |-> f]
    /\ pred_test = Null /\ Z = Null
    /\ fits = <<>>
    /\ disk = [folders |-> {}, files |-> {}]
    /\ pcM = "tested"

\* the shape of one row of pixels, one more than a mask of InitLand has
RowShape == <<1, MaxPixels + 1>>

\* predict_land on a row of pixels: any mask and any one-layer stack of
\* that shape, any fitted classifier, with the statistics of the stack
InitLandRow ==
    /\ \E positive \in {0, 1} : cfg = ModelConfig(positive)
    /\ ref = CollectReference(2)
    /\ rs = RasterStandardsInit(cfg, ref)
    /\ OthersOff
    /\ land_reference \in Matrices(RowShape, MaskValues)
    /\ stacked_raster_coverages \in {<<layer>> : layer \in Matrices(RowShape, PixelValues)}
    /\ species_raster_data = <<>> /\ coordinates = <<>>
    /\ K = 0
    /\ global_mean = GlobalMean(rs, stacked_raster_coverages)
    /\ global_std = GlobalStd(rs, stacked_raster_coverages)
    /\ kf = Null /\ fold = 0 /\ species_bunch = Null
    /\ \E f \in Classifiers : clf = [train |-> <<>>, f |-> f]
    /\ pred_test = Null /\ Z = Null
    /\ fits = <<>>
    /\ disk = [folders |-> {}, files |-> {}]
    /\ pcM = "tested"

\* perform_K_folder_preidction after the arrays are loaded and stacked
\* (lines 119-141): N occurrences whose feature is their number, a stack of
\* one row of two pixels and a mask of its shape
InitKFold ==
    /\ cfg = ModelConfig(1)
    /\ ref = CollectReference(2)
    /\ rs = RasterStandardsInit(cfg, ref)
    /\ OthersOff
    /\ land_reference \in Matrices(<<1, 2>>, {0, 1})
    /\ stacked_raster_coverages \in {<<layer>> : layer \in Matrices(<<1, 2>>, PixelValues)}
    /\ \E n \in 1..MaxOcc :
          /\ species_raster_data = [i \in 1..n |-> <<Num(i)>>]
          /\ \E m \in {n - 1, n, n + 1} \cap 0..MaxOcc :
                coordinates = [i \in 1..m |-> <<i, i>>]
    /\ K \in 1..MaxK
    /\ global_mean = <<>> /\ global_std = <<>>
    /\ kf = Null /\ fold = 0 /\ species_bunch = Null
    /\ clf = Null /\ pred_test = Null /\ Z = Null
    /\ fits = <<>>
    /\ disk = [folders |-> {}, files |-> {}]
    /\ pcM = "loaded"

\* lines 143-156: the statistics of the stack
TakeStats ==
    /\ pcM = "loaded"
    /\ global_mean' = GlobalMean(rs, stacked_raster_coverages)
    /\ global_std' = GlobalStd(rs, stacked_raster_coverages)
    /\ pcM' = "stats"
    /\ UNCHANGED <<land_reference, stacked_raster_coverages, species_raster_data,
                   coordinates, K, kf, fold, species_bunch, clf, pred_test, Z,
                   fits, disk>>
    /\ UNCHANGED <<gridVars, readVars, collVars, storeVars, dirVars, pageVars>>

\* lines 159-162: KFold refuses fewer than two splits, split refuses more
\* splits than rows; otherwise the rows are shuffled and cut into K folds
CreateKFold ==
    /\ pcM = "stats"
    /\ IF K < 2 \/ K > Len(species_raster_data)
         THEN /\ pcM' = "ValueError"
              /\ UNCHANGED <<kf, fold>>
         ELSE /\ \E perm \in Permutations(1..Len(species_raster_data)) :
                    kf' = KFoldSplit(Len(species_raster_data), K, perm)
              /\ fold' = 1
              /\ pcM' = "fold"
    /\ UNCHANGED <<land_reference, stacked_raster_coverages, species_raster_data,
                   coordinates, K, global_mean, global_std, species_bunch, clf,
                   pred_test, Z, fits, disk>>
    /\ UNCHANGED <<gridVars, readVars, collVars, storeVars, dirVars, pageVars>>

\* lines 163-175: the fold's folder is created, then the fold is sliced
SliceFold ==
    /\ pcM = "fold"
    /\ disk' = [disk EXCEPT !.folders = @ \cup {fold}]
    /\ IF /\ IndexInRange(kf[fold].train_index, Len(coordinates))
          /\ IndexInRange(kf[fold].test_index, Len(coordinates))
         THEN /\ species_bunch' = SpeciesBunch(species_raster_data, coordinates, kf[fold])
              /\ pcM' = "sliced"
         ELSE /\ pcM' = "IndexError"
              /\ UNCHANGED species_bunch
    /\ UNCHANGED <<land_reference, stacked_raster_coverages, species_raster_data,
                   coordinates, K, global_mean, global_std, kf, fold, clf,
                   pred_test, Z, fits>>
    /\ UNCHANGED <<gridVars, readVars, collVars, storeVars, dirVars, pageVars>>

\* line 177: clf = self.fit(species_bunch, global_mean, global_std)
Fit ==
    /\ pcM = "sliced"
    /\ \E X \in {FitMatrix(species_bunch, global_mean, global_std)} :
          IF Rejected(X)
            THEN /\ pcM' = "ValueError"
                 /\ UNCHANGED <<clf, fits>>
            ELSE /\ \E f \in Classifiers : clf' = [train |-> X, f |-> f]
                 /\ fits' = Append(fits, X)
                 /\ pcM' = "fitted"
    /\ UNCHANGED <<land_reference, stacked_raster_coverages, species_raster_data,
                   coordinates, K, global_mean, global_std, kf, fold, species_bunch,
                   pred_test, Z, disk>>
    /\ UNCHANGED <<gridVars, readVars, collVars, storeVars, dirVars, pageVars>>

\* line 180: pred_test = self.predict_test_occurences(...)
PredictTest ==
    /\ pcM = "fitted"
    /\ \E t \in {PredictTestOccurences(species_bunch, clf, global_mean, global_std)} :
          IF t.err = ""
            THEN pred_test' = t.pred /\ pcM' = "tested"
            ELSE pred_test' = pred_test /\ pcM' = t.err
    /\ UNCHANGED <<land_reference, stacked_raster_coverages, species_raster_data,
                   coordinates, K, global_mean, global_std, kf, fold, species_bunch,
                   clf, Z, fits, disk>>
    /\ UNCHANGED <<gridVars, readVars, collVars, storeVars, dirVars, pageVars>>

\* line 183: Z = self.predict_land(stacked_raster_coverages, clf, ...)
PredictLandStep ==
    /\ pcM = "tested"
    /\ \E t \in {PredictLand(rs, land_reference, stacked_raster_coverages, clf,
                            global_mean, global_std)} :
          IF t.err = ""
            THEN Z' = t.Z /\ pcM' = "landed"
            ELSE Z' = Z /\ pcM' = t.err
    /\ UNCHANGED <<land_reference, stacked_raster_coverages, species_raster_data,
                   coordinates, K, global_mean, global_std, kf, fold, species_bunch,
                   clf, pred_test, fits, disk>>
    /\ UNCHANGED <<gridVars, readVars, collVars, storeVars, dirVars, pageVars>>

\* lines 187-200: the fold's arrays are saved and released, and the loop
\* goes on to the next fold
SaveFold ==
    /\ pcM = "landed"
    /\ fold >= 1
    /\ disk' = [disk EXCEPT !.files = @ \cup FoldFiles(fold, species_bunch, pred_test, Z)]
    /\ Z' = Null /\ pred_test' = Null /\ species_bunch' = Null
    /\ IF fold = Len(kf)
         THEN pcM' = "done" /\ fold' = fold
         ELSE pcM' = "fold" /\ fold' = fold + 1
    /\ UNCHANGED <<land_reference, stacked_raster_coverages, species_raster_data,
                   coordinates, K, global_mean, global_std, kf, clf, fits>>
    /\ UNCHANGED <<gridVars, readVars, collVars, storeVars, dirVars, pageVars>>

NextLand == PredictLandStep

SpecLand == InitLand /\ [][NextLand]_vars

SpecLandRow == InitLandRow /\ [][NextLand]_vars

NextKFold ==
    TakeStats \/ CreateKFold \/ SliceFold \/ Fit \/ PredictTest \/ PredictLandStep
      \/ SaveFold

SpecKFold == InitKFold /\ [][NextKFold]_vars

-----------------------------------------------------------------------------
(* Raster_Information_Collector._update_coverages *)

\* most calls of _update_coverages in one run of the model
MaxSaves == 3
\* most occurrences (rows) of a coverage
MaxRows == 2
\* most layers (columns) of a coverage
MaxCols == 2

\* np.concatenate((numpy_raster_info, coverage), axis=1): the rows of the two
\* matrices joined one by one; a ValueError when their row counts differ
Concatenate(numpy_raster_info, coverage) ==
    IF Len(numpy_raster_info) # Len(coverage)
    THEN [err |-> "ValueError"]
    ELSE [err |-> "none",
          val |-> [i \in 1..Len(coverage) |-> numpy_raster_info[i] \o coverage[i]]]

\* the body of _update_coverages: open() raises when the file does not exist
\* and np.concatenate raises on a shape mismatch; the except branch catches
\* either and saves the coverage of this call alone
UpdateCoverages(file, coverage) ==
    IF ~file.exists
    THEN [array |-> coverage, pc |-> "created"]
    ELSE IF Concatenate(file.array, coverage).err = "none"
         THEN [array |-> Concatenate(file.array, coverage).val, pc |-> "appended"]
         ELSE [array |-> coverage, pc |-> "replaced"]

\* the coverages of save_coverges_to_numpy (line 143): one row per
\* occurrence, one column per layer; a coverage is told apart by its value
Coverages ==
    {[i \in 1..r |-> [j \in 1..c |-> v]] : r \in 1..MaxRows, c \in 1..MaxCols,
                                           v \in {1, 2}}

InitStore ==
    /\ cfg = Null /\ ref = Null /\ rs = Null
    /\ pcG = "off" /\ window = Null
    /\ raster = Null /\ readOut = Null /\ pcR = "off"
    /\ CollOff /\ ModelOff /\ DirOff /\ PageOff
    /\ stored = NoFile
    /\ saved = <<>>
    /\ pcS = "idle"

\* _update_coverages(species_name, coverage)
UpdateCoveragesCall ==
    /\ pcS \in {"idle", "created", "appended", "replaced"}
    /\ Len(saved) < MaxSaves
    /\ \E coverage \in Coverages :
         \E u \in {UpdateCoverages(stored, coverage)} :
           /\ stored' = [exists |-> TRUE, array |-> u.array]
           /\ pcS' = u.pc
           /\ saved' = Append(saved, coverage)
    /\ UNCHANGED <<gridVars, readVars, collVars, modelVars, dirVars, pageVars>>

NextStore == UpdateCoveragesCall

SpecStore == InitStore /\ [][NextStore]_vars

-----------------------------------------------------------------------------
(* Raster_Standards.get_rasters_from_dir *)

\* most files of the directory
MaxFiles == 3

\* a file of the directory: its name sorts by stem, tif says whether the name
\* ends with '.tif', and ok whether get_raster_array returns for it
Files == [stem : 1..MaxFiles, tif : BOOLEAN, ok : BOOLEAN]

\* sorted(paths): the paths share dir_path, so they sort as their names do
SortedPaths(names) ==
    CHOOSE q \in [1..Len(names) -> {names[i] : i \in 1..Len(names)}] :
        /\ \A i \in 1..Len(names) : \E j \in 1..Len(names) : q[j] = names[i]
        /\ \A i, j \in 1..Len(names) : i < j => q[i].stem < q[j].stem

\* the listings of os.walk: every order of every set of files of distinct names
Listings ==
    {l \in UNION {[1..n -> Files] : n \in 0..MaxFiles} :
        \A i, j \in 1..Len(l) : i # j => l[i].stem # l[j].stem}

\* the pair the loop of line 198 takes at position i
PairAt(names, i) == [filepath |-> SortedPaths(names)[i], filename |-> names[i]]

InitDir ==
    /\ cfg = Null /\ ref = Null /\ rs = Null
    /\ pcG = "off" /\ window = Null
    /\ raster = Null /\ readOut = Null /\ pcR = "off"
    /\ CollOff /\ ModelOff /\ StoreOff /\ PageOff
    /\ filenames \in Listings
    /\ rasters = <<>>
    /\ pos = 0
    /\ pcD = "walk"

\* A file that get_raster_array refuses is left out and the loop goes on.
VisitFileSkippingRefused ==
    /\ pcD = "walk"
    /\ pos < Len(filenames)
    /\ \E pair \in {PairAt(filenames, pos + 1)} :
         IF pair.filename.tif /\ pair.filepath.ok
         THEN /\ rasters' = Append(rasters, pair.filepath)
              /\ pos' = pos + 1
              /\ UNCHANGED pcD
         ELSE /\ pos' = pos + 1
              /\ UNCHANGED <<rasters, pcD>>
    /\ UNCHANGED filenames
    /\ UNCHANGED <<gridVars, readVars, collVars, modelVars, storeVars, pageVars>>

\* one turn of the loop of lines 198-202: the suffix of the listed name
\* decides whether the sorted path is read
VisitFile ==
    /\ pcD = "walk"
    /\ pos < Len(filenames)
    /\ \E pair \in {PairAt(filenames, pos + 1)} :
         IF ~pair.filename.tif
         THEN /\ pos' = pos + 1
              /\ UNCHANGED <<rasters, pcD>>
         ELSE IF pair.filepath.ok
              THEN /\ rasters' = Append(rasters, pair.filepath)
                   /\ pos' = pos + 1
                   /\ UNCHANGED pcD
              ELSE /\ pcD' = "raised"
                   /\ UNCHANGED <<rasters, pos>>
    /\ UNCHANGED filenames
    /\ UNCHANGED <<gridVars, readVars, collVars, modelVars, storeVars, pageVars>>

\* result = np.stack(rasters) (line 204): np.stack raises on an empty list
StackRasters ==
    /\ pcD = "walk"
    /\ pos = Len(filenames)
    /\ pcD' = IF rasters = <<>> THEN "ValueError" ELSE "stacked"
    /\ UNCHANGED <<filenames, rasters, pos>>
    /\ UNCHANGED <<gridVars, readVars, collVars, modelVars, storeVars, pageVars>>

NextDir == VisitFile \/ StackRasters

SpecDir == InitDir /\ [][NextDir]_vars

-----------------------------------------------------------------------------
(* perform_K_folder_preidction from the reading of the rasters' folder on  *)
(* (lines 127-200), for one folder of rasters                              *)

\* the array get_raster_array returns for a file: one row of two pixels
LayerOf(file) == <<<<Num(file.stem), Num(file.stem + 2)>>>>

\* the files of a listing whose listed name ends with '.tif'
TifNames(names) == {i \in 1..Len(names) : names[i].tif}

\* The run before line 127: two occurrences whose feature matrix has a
\* column for every '.tif' name of the folder, their coordinates, a mask of
\* the shape of a layer, all land or no land, and K.
InitRun ==
    /\ cfg = ModelConfig(1)
    /\ ref = CollectReference(2)
    /\ rs = RasterStandardsInit(cfg, ref)
    /\ pcG = "off" /\ window = Null
    /\ raster = Null /\ readOut = Null /\ pcR = "off"
    /\ CollOff /\ StoreOff /\ PageOff
    /\ filenames \in Listings
    /\ rasters = <<>>
    /\ pos = 0
    /\ pcD = "walk"
    /\ land_reference \in {Filled(1, 2, 1), Filled(1, 2, 0)}
    /\ stacked_raster_coverages = <<>>
    /\ species_raster_data =
          [i \in 1..2 |-> [k \in 1..Cardinality(TifNames(filenames)) |-> Num(i)]]
    /\ coordinates = [i \in 1..2 |-> <<i, i>>]
    /\ K \in {2, 3}
    /\ global_mean = <<>> /\ global_std = <<>>
    /\ kf = Null /\ fold = 0 /\ species_bunch = Null
    /\ clf = Null /\ pred_test = Null /\ Z = Null
    /\ fits = <<>>
    /\ disk = [folders |-> {}, files |-> {}]
    /\ pcM = "reading"

\* lines 131-141: get_rasters_from_dir has returned its stack, which is the
\* whole of the covariate stack; its locals and the list of line 129 are
\* released
StackCoverages ==
    /\ pcM = "reading"
    /\ pcD = "stacked"
    /\ stacked_raster_coverages' = [i \in 1..Len(rasters) |-> LayerOf(rasters[i])]
    /\ pcM' = "loaded"
    /\ filenames' = <<>> /\ rasters' = <<>> /\ pos' = 0 /\ pcD' = "returned"
    /\ UNCHANGED <<land_reference, species_raster_data, coordinates, K, global_mean,
                   global_std, kf, fold, species_bunch, clf, pred_test, Z, fits,
                   disk>>
    /\ UNCHANGED <<gridVars, readVars, collVars, storeVars, pageVars>>

NextRun ==
    VisitFile \/ StackRasters \/ StackCoverages \/ TakeStats \/ CreateKFold
      \/ SliceFold \/ Fit \/ PredictTest \/ PredictLandStep \/ SaveFold

SpecRun == InitRun /\ [][NextRun]_vars

-----------------------------------------------------------------------------
(* Specie._managing_complete_species_dataframe (specie.py)                 *)

\* most records of the service's result sequence
MaxRecords == 6

\* most records asked for in one request
MaxPageSize == 3

\* the status codes of a response: success, or a failure of the service
StatusCodes == {200, 500}

Min(a, b) == IF a <= b THEN a ELSE b

\* requests.get(query, params) answered with 200 (lines 138-146): the
\* service skips the first `offset` records of the result sequence and
\* returns at most `limit` records, with endOfRecords true when the page
\* reaches the end of the sequence
SearchPage(records, params) ==
    [results |-> SubSeq(records, params.offset + 1,
                        Min(params.offset + params.limit, Len(records))),
     endOfRecords |-> params.offset + params.limit >= Len(records)]

\* _create_specie_dataframe: one row appended for every result of the page
CreateSpecieDataframe(df_final, request) == df_final \o request.results

InitPage ==
    /\ cfg = Null /\ ref = Null /\ rs = Null
    /\ pcG = "off" /\ window = Null
    /\ raster = Null /\ readOut = Null /\ pcR = "off"
    /\ CollOff /\ ModelOff /\ StoreOff /\ DirOff
    /\ \E n \in 0..MaxRecords : remote = [i \in 1..n |-> i]
    /\ self_limit \in 1..MaxPageSize
    /\ offset = 0
    /\ df = <<>>
    /\ endOfRecords = FALSE
    /\ status = 200
    /\ requested = <<>>
    /\ pcP = "loop"

\* one turn of the loop of lines 118-121: the request, the rows of its
\* page and the next offset.  A response other than 200 is no JSON object:
\* _create_specie_dataframe subscripts it and raises a TypeError.
RequestPage ==
    /\ pcP = "loop"
    /\ endOfRecords = FALSE /\ status = 200
    /\ requested' = Append(requested, [offset |-> offset, collected |-> Len(df)])
    /\ \E code \in StatusCodes :
          /\ status' = code
          /\ IF code # 200
               THEN /\ endOfRecords' = TRUE
                    /\ pcP' = "TypeError"
                    /\ UNCHANGED <<df, offset>>
               ELSE \E r \in {SearchPage(remote, [offset |-> offset, limit |-> self_limit])} :
                    /\ endOfRecords' = r.endOfRecords
                    /\ df' = CreateSpecieDataframe(df, r)
                    /\ offset' = Len(CreateSpecieDataframe(df, r)) + 1
                    /\ pcP' = pcP
    /\ UNCHANGED <<remote, self_limit>>
    /\ UNCHANGED <<gridVars, readVars, collVars, modelVars, storeVars, dirVars>>

\* the condition of the while loop (line 118) is false: the loop is left
\* with the rows collected
LeaveLoop ==
    /\ pcP = "loop"
    /\ ~(endOfRecords = FALSE /\ status = 200)
    /\ pcP' = "collected"
    /\ UNCHANGED <<remote, self_limit, offset, df, endOfRecords, status, requested>>
    /\ UNCHANGED <<gridVars, readVars, collVars, modelVars, storeVars, dirVars>>

NextPage == RequestPage \/ LeaveLoop

SpecPage == InitPage /\ [][NextPage]_vars

\* the interpreter runs the loop: a turn or the exit that can be taken is
\* taken
SpecPageFair == SpecPage /\ WF_vars(NextPage)

-----------------------------------------------------------------------------
(* Claims about the grid *)

GridBuilt == pcG \in {"built", "windowed", "noinverse"}

StrictlyIncreasing(grid) == \A i \in 1..(Len(grid) - 1) : grid[i] < grid[i + 1]

ConstantStep(grid, step) == \A i \in 1..(Len(grid) - 1) : grid[i + 1] - grid[i] = step

WindowRows == window[1][2] - window[1][1]
WindowCols == window[2][2] - window[2][1]

BoundsFollowReference ==
    /\ ref.a > 0 /\ ref.e = -ref.a
    /\ 2 * Abs(rs.x_min_limit - ref.c) <= ref.a
    /\ 2 * Abs(rs.x_max_limit - (ref.c + ref.a * ref.width)) <= ref.a
    /\ 2 * Abs(rs.y_max_limit - ref.f) <= ref.a
    /\ 2 * Abs(rs.y_min_limit - (ref.f + ref.e * ref.height)) <= ref.a

-----------------------------------------------------------------------------
(* Claims about the validated read *)

\* the six checks, as the specification names them; a north-up raster has a
\* negative vertical step
NorthUp(r)        == r.e < 0
SingleBand(r)     == r.count = 1
CrsMatches(r)     == r.crs = rs.crs
ResolutionMatches(r) == Round5(r.a) = Round5(rs.reference_raster.a)
NoDataMatches(r)  == r.nodata = <<rs.no_data_val>>
DTypeMatches(r)   == r.dtype = rs.reference_raster.dtype

CheckPasses(r, k) ==
    CASE k = 1 -> NorthUp(r)
      [] k = 2 -> SingleBand(r)
      [] k = 3 -> CrsMatches(r)
      [] k = 4 -> ResolutionMatches(r)
      [] k = 5 -> NoDataMatches(r)
      [] k = 6 -> DTypeMatches(r)

\* the checks of the code: as above, but the orientation check lets a zero
\* vertical step through
CodeChecksPass(r) ==
    /\ r.e <= 0 /\ SingleBand(r) /\ CrsMatches(r) /\ ResolutionMatches(r)
    /\ NoDataMatches(r) /\ DTypeMatches(r)

C2_AcceptsIffSixChecksInOrder ==
    pcR = "done" =>
        /\ ~readOut.raised <=> \A k \in 1..6 : CheckPasses(raster, k)
        /\ readOut.raised =>
              /\ ~CheckPasses(raster, readOut.check)
              /\ \A k \in 1..(readOut.check - 1) : CheckPasses(raster, k)

-----------------------------------------------------------------------------
(* The border walk and the residual fill *)

\* the step toward the grid centre on one axis: -1 from above the centre,
\* +1 from below it
Toward(p, center) == IF 2 * p > center.twice THEN -1 ELSE 1

DiagonalNeighbourValue ==
    At(raster_array, -(iy[1] + Toward(Lat[1], rs.y_center_point)),
       ix[1] + Toward(Long[1], rs.x_center_point))

\* the occurrence lies strictly off both centre axes, its extracted cell and
\* the cell one diagonal step toward the centre are cells of the array
\* (no index wraps round), the first holds the sentinel and the second a
\* valid value
HasValidDiagonalNeighbour ==
    /\ Len(Long) = 1 /\ Len(ix) = 1
    /\ ~rs.x_center_point.nan /\ ~rs.y_center_point.nan
    /\ 2 * Long[1] # rs.x_center_point.twice
    /\ 2 * Lat[1] # rs.y_center_point.twice
    /\ ix[1] \in 0..(Width(raster_array) - 1)
    /\ iy[1] \in 1..Height(raster_array)
    /\ (ix[1] + Toward(Long[1], rs.x_center_point)) \in 0..(Width(raster_array) - 1)
    /\ (iy[1] + Toward(Lat[1], rs.y_center_point)) \in 1..Height(raster_array)
    /\ At(raster_array, -iy[1], ix[1]) = Sentinel
    /\ DiagonalNeighbourValue # Sentinel

\* C3: an occurrence whose extracted value is the sentinel and whose diagonal
\* neighbour one step toward the grid centre is valid holds that neighbour's
\* value after the walk when correction_limit >= 1, and the sentinel when
\* correction_limit = 0.
C3_WalkStoresDiagonalNeighbour ==
    (pcC = "treated" /\ HasValidDiagonalNeighbour) =>
        IF coorection_limit >= 1
          THEN raster_occurrences_array[1] = DiagonalNeighbourValue
          ELSE raster_occurrences_array[1] = Sentinel

\* the part of C3 about correction_limit = 0
C3_ZeroLimitKeepsSentinel ==
    (pcC = "treated" /\ HasValidDiagonalNeighbour /\ coorection_limit = 0) =>
        raster_occurrences_array[1] = Sentinel

\* the walk passed through more than one quadrant test in its first pass
C3_SeveralTestsFired ==
    /\ pcC = "treated" /\ HasValidDiagonalNeighbour /\ coorection_limit >= 1
    /\ Len(walkLog[1]) >= 1
    /\ <<walkLog[1][1].incx, walkLog[1][1].incy>> #
         <<Toward(Long[1], rs.x_center_point), Toward(Lat[1], rs.y_center_point)>>

\* the indices of a vector whose entry is not the sentinel
ValidIndices(v) == {i \in 1..Len(v) : v[i] # Sentinel}

RECURSIVE SumOver(_, _)
SumOver(v, S) ==
    IF S = {} THEN 0
    ELSE LET i == CHOOSE j \in S : TRUE
         IN v[i][1] + SumOver(v, S \ {i})

\* q is the arithmetic mean of the entries of the integer vector v that are
\* not the sentinel: q times their count is their sum; with no such entry
\* the mean is numpy's nan
IsMeanOfValid(q, v) ==
    IF ValidIndices(v) = {} THEN IsNaN(q)
    ELSE /\ ~IsNaN(q)
         /\ q[1] * Cardinality(ValidIndices(v)) = q[2] * SumOver(v, ValidIndices(v))

\* the mean of the valid entries of v is the sentinel itself
MeanOfValidIsSentinel(v) ==
    /\ ValidIndices(v) # {}
    /\ SumOver(v, ValidIndices(v)) = HardCodedNoData * Cardinality(ValidIndices(v))

\* the fill replaced the sentinel entries of fillHist[1] by the mean of the
\* others and kept the others
FillReplacesSentinelsByMean ==
    /\ Len(fillHist[2]) = Len(fillHist[1])
    /\ \A i \in 1..Len(fillHist[1]) :
          IF fillHist[1][i] = Sentinel
            THEN IsMeanOfValid(fillHist[2][i], fillHist[1])
            ELSE fillHist[2][i] = fillHist[1][i]

\* C4: the residual fill applied to its own result returns that result.
C4_FillIsIdempotent ==
    Len(fillHist) >= 3 => fillHist[3] = fillHist[2]

\* a vector with a sentinel entry and a valid one was filled twice
C4_Witness ==
    /\ Len(fillHist) >= 3
    /\ \E i \in 1..Len(fillHist[1]) : fillHist[1][i] = Sentinel
    /\ \E i \in 1..Len(fillHist[1]) : fillHist[1][i] # Sentinel
    /\ fillHist[2] # fillHist[1]

\* C5 as stated: after the fill every sentinel entry is the mean of the other
\* entries, every other entry is unchanged and no entry is the sentinel.
C5_NoSentinelAfterFill ==
    Len(fillHist) >= 2 =>
        /\ FillReplacesSentinelsByMean
        /\ \A i \in 1..Len(fillHist[2]) : fillHist[2][i] # Sentinel

\* C5: after the fill every sentinel entry is the mean of the entries that
\* were not the sentinel (nan when there is none), every other entry is
\* unchanged, and an entry of the result is the sentinel only when that mean
\* is exactly the sentinel.
C5_SentinelsBecomeMeanOfValid ==
    Len(fillHist) >= 2 =>
        /\ FillReplacesSentinelsByMean
        /\ (\E i \in 1..Len(fillHist[2]) : fillHist[2][i] = Sentinel)
              => MeanOfValidIsSentinel(fillHist[1])

\* a vector with a sentinel entry and valid entries of a mean other than
\* the sentinel was filled
C5_Witness ==
    /\ Len(fillHist) >= 2
    /\ \E i \in 1..Len(fillHist[1]) : fillHist[1][i] = Sentinel
    /\ ValidIndices(fillHist[1]) # {}
    /\ ~MeanOfValidIsSentinel(fillHist[1])
    /\ \A i \in 1..Len(fillHist[2]) : fillHist[2][i] # Sentinel

-----------------------------------------------------------------------------
(* The folds and the land prediction *)

Range(seq) == {seq[i] : i \in 1..Len(seq)}

NoRepeat(seq) == Cardinality(Range(seq)) = Len(seq)

Occurrences == 1..Len(species_raster_data)

\* C6: every occurrence index is in the test partition of exactly one of
\* the K folds, and in every fold the train and test index sets are
\* disjoint and together are the full index set.
C6_FoldsPartitionOccurrences ==
    kf # Null =>
        /\ Len(kf) = K
        /\ \A i \in Occurrences :
              Cardinality({j \in 1..Len(kf) : i \in Range(kf[j].test_index)}) = 1
        /\ \A j \in 1..Len(kf) :
              /\ NoRepeat(kf[j].test_index) /\ NoRepeat(kf[j].train_index)
              /\ Range(kf[j].train_index) \cap Range(kf[j].test_index) = {}
              /\ Range(kf[j].train_index) \cup Range(kf[j].test_index) = Occurrences

\* a run with folds of unequal size went through all of them
C6_Witness ==
    /\ pcM = "done"
    /\ Len(kf) >= 2
    /\ Len(species_raster_data) % Len(kf) # 0

\* the standardized covariates of pixel <<r, c>>, every value at or below
\* no_data_val first replaced by the mean of its covariate
PixelRow(r, c) ==
    [k \in 1..Len(stacked_raster_coverages) |->
        NanToZero(Scaled(IF AtMost(stacked_raster_coverages[k][r][c], rs.no_data_val)
                           THEN global_mean[k]
                           ELSE stacked_raster_coverages[k][r][c],
                         global_mean[k], global_std[k]))]

\* the score the classifier gives pixel <<r, c>>
PixelScore(r, c) == clf.f[RowClass(PixelRow(r, c))]

\* C7 as stated: in the raster predict_land returns, every pixel whose mask
\* is the positive mask value holds a score other than the no-data
\* sentinel, and every pixel whose mask is zero holds the sentinel.
C7_LandScoredZeroMasked ==
    pcM = "landed" =>
        \A r \in 1..Height(Z) : \A c \in 1..Width(Z) :
            /\ land_reference[r][c] = rs.positive_mask_val => Z[r][c] # rs.no_data_val
            /\ land_reference[r][c] = 0 => Z[r][c] = rs.no_data_val

\* C7: in the raster predict_land returns, every pixel whose mask is zero
\* holds the no-data sentinel, and when the positive mask value is not zero
\* every pixel whose mask is that value holds the score the classifier gave
\* the pixel (the sentinel only if that score is the sentinel).
C7_ZeroMaskedLandHoldsItsScore ==
    pcM = "landed" =>
        \A r \in 1..Height(Z) : \A c \in 1..Width(Z) :
            /\ land_reference[r][c] = 0 => Z[r][c] = rs.no_data_val
            /\ (rs.positive_mask_val # 0 /\ land_reference[r][c] = rs.positive_mask_val)
                  => /\ Z[r][c] = PixelScore(r, c)
                     /\ Z[r][c] \in Scores
                     /\ (Z[r][c] = rs.no_data_val => PixelScore(r, c) = rs.no_data_val)

\* a raster was returned for a mask with a land pixel and a zero pixel, the
\* lowest land score being no sentinel
C7_Witness ==
    /\ pcM = "landed"
    /\ rs.positive_mask_val # 0
    /\ \E r \in 1..Height(Z) : \E c \in 1..Width(Z) :
          land_reference[r][c] = rs.positive_mask_val /\ Z[r][c] # rs.no_data_val
    /\ \E r \in 1..Height(Z) : \E c \in 1..Width(Z) : land_reference[r][c] = 0

\* the training rows of fold j, standardized with the global statistics
TrainMatrix(j) ==
    Standardize(Take(species_raster_data, kf[j].train_index), global_mean, global_std)

\* the file of fold j saved under a name
FileOf(j, filename) ==
    CHOOSE f \in disk.files : f.folder = j /\ f.filename = filename

\* fold j saved exactly one array under the name
SavedOnce(j, filename) ==
    Cardinality({f \in disk.files : f.folder = j /\ f.filename = filename}) = 1

\* the number of test scores saved by the folds 1..j
TestScoresSaved(j) ==
    LET total[i \in 0..j] ==
            IF i = 0 THEN 0 ELSE total[i - 1] + FileOf(i, "Test_Prediction").shape[1]
    IN total[j]

\* the folds whose iteration has saved its arrays
FoldsSaved == IF pcM = "done" THEN 1..fold ELSE 1..(fold - 1)

\* C8: a run of the k-fold pipeline makes one iteration per fold, K in all
\* when it ends; each fold is fitted on exactly the rows of its train
\* partition, predicts one raster of the rows and columns of a layer of the
\* stack, and one test score for each occurrence of its test partition, so
\* that the test scores of a finished run number N.
C8_EachFoldFitsScoresAndPredicts ==
    kf # Null =>
        /\ fold \in 1..K
        /\ disk.folders \subseteq 1..fold
        /\ pcM \in {"sliced", "fitted", "tested", "landed"} =>
              /\ species_bunch.raster_data_train =
                    Take(species_raster_data, kf[fold].train_index)
              /\ species_bunch.raster_data_test =
                    Take(species_raster_data, kf[fold].test_index)
        /\ pcM \in {"fitted", "tested", "landed"} =>
              /\ Len(fits) = fold
              /\ clf.train = TrainMatrix(fold)
              /\ Len(clf.train) = Len(kf[fold].train_index)
        /\ pcM \in {"tested", "landed"} =>
              Len(pred_test) = Len(kf[fold].test_index)
        /\ pcM = "landed" =>
              /\ Height(Z) = Height(stacked_raster_coverages[1])
              /\ Width(Z) = Width(stacked_raster_coverages[1])
        /\ \A j \in FoldsSaved :
              /\ j \in disk.folders
              /\ fits[j] = TrainMatrix(j)
              /\ SavedOnce(j, "Land_Prediction")
              /\ FileOf(j, "Land_Prediction").shape =
                    <<Height(stacked_raster_coverages[1]),
                      Width(stacked_raster_coverages[1])>>
              /\ SavedOnce(j, "Test_Prediction")
              /\ FileOf(j, "Test_Prediction").shape = <<Len(kf[j].test_index)>>
              /\ SavedOnce(j, "Species_Raster_Data_Train")
              /\ FileOf(j, "Species_Raster_Data_Train").shape[1] = Len(kf[j].train_index)
        /\ pcM = "done" =>
              /\ fold = K
              /\ Len(fits) = K
              /\ disk.folders = 1..K
              /\ \A f \in disk.files : f.folder \in 1..K
              /\ TestScoresSaved(K) = Len(species_raster_data)

\* a run of two folds over two occurrences ended, each fold fitted on one
\* occurrence and saving one test score
C8_Witness ==
    /\ pcM = "done"
    /\ K = 2 /\ Len(species_raster_data) = 2
    /\ \A j \in 1..2 :
          /\ Len(fits[j]) = 1
          /\ FileOf(j, "Test_Prediction").shape = <<1>>


-----------------------------------------------------------------------------
(* Claims about the stored feature matrix *)

\* row i of the column-wise concatenation of the coverages of blocks
ConcatRow(blocks, i) ==
    LET run[n \in 0..Len(blocks)] ==
            IF n = 0 THEN <<>> ELSE run[n - 1] \o blocks[n][i]
    IN  run[Len(blocks)]

\* C11: after any sequence of saves for one species the stored matrix is the
\* column-wise concatenation of every saved coverage, in call order: it has
\* the rows of each of them, and each of its rows is the rows of the
\* coverages joined in the order of the calls.
C11_StoredIsConcatenationOfAllSaves ==
    saved # <<>> =>
        /\ stored.exists
        /\ \A k \in 1..Len(saved) : Len(saved[k]) = Len(stored.array)
        /\ \A i \in 1..Len(stored.array) : stored.array[i] = ConcatRow(saved, i)

-----------------------------------------------------------------------------
(* Claims about the orientation of the reference raster *)

\* C12: whenever the reference raster's transform has a non-negative
\* vertical step, the construction of the Grid ends in an error and no Grid
\* object is produced.
C12_NonNegativeVerticalStepFails ==
    (pcG # "new" /\ ref.e >= 0) => (pcG = "error" /\ rs = Null)

-----------------------------------------------------------------------------
(* Claims about the stack of a directory *)

IsTif(file) == file.tif

\* the '.tif' files of the directory in ascending order of their names
TifFilesAscending(names) ==
    SelectSeq([i \in 1..Len(names) |-> SortedPaths(names)[i]], IsTif)

\* C13: for any directory and any listing order, get_rasters_from_dir reads
\* no file whose name does not end with '.tif', and the stack it returns has
\* one layer per '.tif' file of the directory, in ascending order of the
\* filenames, none skipped.
C13_StackIsTifFilesInNameOrder ==
    /\ \A i \in 1..Len(rasters) : rasters[i].tif
    /\ pcD = "stacked" => rasters = TifFilesAscending(filenames)

-----------------------------------------------------------------------------
(* Claims about the rows of the feature matrix and the coordinates *)

\* C14: when the feature matrix has not as many rows as there are occurrence
\* coordinates, the run signals an error before any fold is started: no fold
\* directory is created, no classifier is fitted, no fold output is written
\* and the run does not complete.
C14_RowMismatchFailsBeforeAnyFold ==
    Len(species_raster_data) # Len(coordinates) =>
        /\ disk.folders = {} /\ disk.files = {}
        /\ fits = <<>>
        /\ pcM # "done"

-----------------------------------------------------------------------------
(* Claims about the extraction of the occurrences' values *)

\* the first index, from 0, of an ascending grid whose value is >= v; the
\* length of the grid when there is none
FirstIndexAtLeast(grid, v) ==
    IF \E i \in 1..Len(grid) : grid[i] >= v
    THEN (CHOOSE i \in 1..Len(grid) :
              /\ grid[i] >= v
              /\ \A j \in 1..(i - 1) : grid[j] < v) - 1
    ELSE Len(grid)

\* the cell arr[-row_index, column_index] of Python: row 0 for a row index of
\* 0, otherwise the row_index-th row counted from the last one
SampledCell(arr, row_index, column_index) ==
    arr[IF row_index = 0 THEN 1 ELSE Len(arr) - row_index + 1][column_index + 1]

\* C15: the column index of an occurrence is the first index of xgrid whose
\* value is >= its longitude and its row index the first index of ygrid whose
\* value is >= its latitude (the grid's length when there is none), and the
\* value extracted for it is the raster's at row -row_index and that column.
C15_IndicesAreFirstAtLeastAndCellIsNegatedRow ==
    pcC \in {"extracted", "IndexError"} =>
        \A i \in 1..Len(Long) :
            /\ ix[i] = FirstIndexAtLeast(rs.xgrid, Long[i])
            /\ iy[i] = FirstIndexAtLeast(rs.ygrid, Lat[i])
            /\ pcC = "extracted" =>
                   raster_occurrences_array[i] = SampledCell(raster_array, iy[i], ix[i])

\* an occurrence on a grid line of x, north of the first grid line of y, is
\* extracted from a cell that holds a value
C15_Witness ==
    /\ pcC = "extracted"
    /\ iy[1] > 0
    /\ Long[1] = rs.xgrid[ix[1] + 1]
    /\ raster_occurrences_array[1] # Sentinel

-----------------------------------------------------------------------------
(* Claims about the global statistics *)

\* the sum of the entries of w at the positions where v is above nodata
SumAbove(v, w, nodata) ==
    LET run[n \in 0..Len(v)] ==
            IF n = 0 THEN Num(0)
            ELSE IF GreaterThan(v[n], nodata) THEN RAdd(run[n - 1], w[n])
            ELSE run[n - 1]
    IN  run[Len(v)]

CountAbove(v, nodata) == Cardinality({n \in 1..Len(v) : GreaterThan(v[n], nodata)})

\* the mean of the entries of w at the positions where v is above nodata,
\* NaN when there is none
MeanAbove(v, w, nodata) ==
    IF CountAbove(v, nodata) = 0 THEN NaN
    ELSE Norm(SumAbove(v, w, nodata)[1],
              SumAbove(v, w, nodata)[2] * CountAbove(v, nodata))

\* the statistics of the full stack: per covariate, the mean of its pixels
\* above the sentinel and the root of the mean square minus the square mean
StackMean ==
    [k \in 1..Len(stacked_raster_coverages) |->
        MeanAbove(Flatten(stacked_raster_coverages[k]),
                  Flatten(stacked_raster_coverages[k]), rs.no_data_val)]

StackStd ==
    [k \in 1..Len(stacked_raster_coverages) |->
        [root |-> RSub(MeanAbove(Flatten(stacked_raster_coverages[k]),
                                 Squares(Flatten(stacked_raster_coverages[k])),
                                 rs.no_data_val),
                       RMul(StackMean[k], StackMean[k]))]]

\* the statistics held are those of the full stack, and what a fold has
\* computed is computed with them
FoldsNormalizeWithStackStatistics ==
    /\ pcM # "loaded" => global_mean = StackMean /\ global_std = StackStd
    /\ pcM \in {"fitted", "tested", "landed"} =>
          clf.train = Standardize(species_bunch.raster_data_train,
                                  global_mean, global_std)
    /\ pcM \in {"tested", "landed"} =>
          pred_test = DecisionFunction(clf,
                          Standardize(species_bunch.raster_data_test,
                                      global_mean, global_std))
    /\ pcM = "landed" =>
          Z = PredictLand(rs, land_reference, stacked_raster_coverages, clf,
                          global_mean, global_std).Z

\* no step after the statistics are taken changes them or the stack
StatisticsAndStackKept ==
    pcM # "loaded" =>
        /\ global_mean' = global_mean
        /\ global_std' = global_std
        /\ stacked_raster_coverages' = stacked_raster_coverages

\* C16: the global mean and standard deviation of each covariate are taken
\* once, before the first fold, from the pixels of the full stack above the
\* sentinel; the fit, the test scores and the land scores of every fold are
\* computed with exactly those values, and no fold changes the statistics or
\* the stack.
C16_FoldsShareStatisticsOfFullStack ==
    /\ []FoldsNormalizeWithStackStatistics
    /\ [][StatisticsAndStackKept]_vars

\* the second fold has scored the land with the statistics the first fold
\* was fitted with: the mean 2 and the variance 1 of the pixels 1 and 3
C16_Witness ==
    /\ pcM = "landed" /\ fold >= 2 /\ Len(fits) = 2
    /\ global_mean = <<Num(2)>>
    /\ global_std = <<[root |-> Num(1)]>>
    /\ fits[1] = TrainMatrix(1)

-----------------------------------------------------------------------------
(* Claims about the cell an occurrence is extracted from *)

\* the footprint of the cell of column c and of row r from the north
\* (both from 0) under the reference raster's transform, its edges included
InFootprint(x, y, r, c) ==
    /\ ref.c + ref.a * c <= x /\ x <= ref.c + ref.a * (c + 1)
    /\ ref.f + ref.e * (r + 1) <= y /\ y <= ref.f + ref.e * r

\* the point lies in the extent of the raster
InExtent(x, y) ==
    /\ ref.c <= x /\ x <= ref.c + ref.a * ref.width
    /\ ref.f + ref.e * ref.height <= y /\ y <= ref.f

\* C17: for every occurrence inside the grid extent the extraction succeeds
\* and the column and the row it samples are those of a cell whose footprint
\* contains the occurrence.
C17_SampledCellContainsOccurrence ==
    (pcC # "start" /\ InExtent(Long[1], Lat[1])) =>
        /\ InBounds(raster_array, -iy[1], ix[1])
        /\ InFootprint(Long[1], Lat[1],
                       NpIndex(-iy[1], Height(raster_array)),
                       NpIndex(ix[1], Width(raster_array)))

-----------------------------------------------------------------------------
(* Claims about the offsets of the border walk *)

\* the offsets before the j-th sampled cell of an occurrence's walk
OffsetsBefore(cells, j) ==
    IF j = 1 THEN [incx |-> 0, incy |-> 0]
    ELSE [incx |-> cells[j - 1].incx, incy |-> cells[j - 1].incy]

\* C18: every pass of the walk changes the column offset and the row offset
\* by exactly one cell each, toward the centre, so that after k passes
\* |incx| = |incy| = k, wherever the occurrence lies.
C18_OffsetsAdvanceOneCellPerPass ==
    \A i \in 1..Len(walkLog) : \A j \in 1..Len(walkLog[i]) :
        /\ Abs(walkLog[i][j].incx - OffsetsBefore(walkLog[i], j).incx) = 1
        /\ Abs(walkLog[i][j].incy - OffsetsBefore(walkLog[i], j).incy) = 1
        /\ Abs(walkLog[i][j].incx) = j
        /\ Abs(walkLog[i][j].incy) = j

-----------------------------------------------------------------------------
(* Claims about the length and the result of the border walk *)

\* the value the extraction gave the occurrence
ExtractedValue == At(raster_array, -iy[1], ix[1])

\* the cells the walk has sampled so far
Sampled == walk.cells

\* the walk never samples more than correction_limit cells, no cell after a
\* cell that is not the sentinel; the value held for the occurrence is the
\* first sampled value that is not the sentinel, the sentinel while there is
\* none; an occurrence extracted with another value is never sampled again
\* and keeps it
WalkKeepsWithinLimitAndStoresFirstValid ==
    pcC \in {"walking", "treated", "IndexError"} =>
        /\ Len(Sampled) <= coorection_limit
        /\ \A j \in 1..(Len(Sampled) - 1) : Sampled[j].value = Sentinel
        /\ ExtractedValue # Sentinel =>
              Sampled = <<>> /\ raster_occurrences_array[1] = ExtractedValue
        /\ ExtractedValue = Sentinel =>
              IF \E j \in 1..Len(Sampled) : Sampled[j].value # Sentinel
                THEN raster_occurrences_array[1] = Sampled[Len(Sampled)].value
                ELSE raster_occurrences_array[1] = Sentinel

\* the function has returned or raised
WalkEnded == pcC \in {"treated", "IndexError"}

\* C19: the walk of an occurrence extracted as the sentinel samples at most
\* correction_limit cells and ends; the value stored is the first sampled
\* value that is not the sentinel and no cell is sampled after it; when every
\* sampled cell holds the sentinel the value stays the sentinel; an
\* occurrence extracted with another value is neither sampled again nor
\* changed.
C19_WalkIsBoundedAndStoresFirstValid ==
    /\ []WalkKeepsWithinLimitAndStoresFirstValid
    /\ <>WalkEnded

\* a walk has ended on its second sample, the first one that holds a value
C19_Witness ==
    /\ pcC = "treated"
    /\ ExtractedValue = Sentinel
    /\ Len(Sampled) = 2
    /\ Sampled[1].value = Sentinel
    /\ Sampled[2].value # Sentinel
    /\ raster_occurrences_array[1] = Sampled[2].value

-----------------------------------------------------------------------------
(* Claims about the sentinel of the collector *)

\* C20: the border correction and the residual fill take for missing exactly
\* the values equal to the Grid's configured no_data_val: whatever the
\* configured value, the value extracted for an occurrence is replaced by
\* the correction or by the fill if and only if it equals that value.
C20_RepairedIffConfiguredNoData ==
    pcC = "filled" =>
        (raster_occurrences_array[1] # ExtractedValue
            <=> ExtractedValue = Num(rs.no_data_val))


-----------------------------------------------------------------------------
(* Claims about the values handed to the classifier *)

\* every value of a standardized matrix is a finite number
Finite(X) == \A i \in 1..Len(X) : \A k \in 1..Len(X[i]) : X[i][k].kind = "fin"

\* the matrix predict_land hands to decision_function (lines 83-92)
LandInput ==
    Standardize(LandMatrix(rs, LandIdx(rs, land_reference), stacked_raster_coverages,
                           global_mean),
                global_mean, global_std)

\* C21: the matrix fit hands to clf.fit, the matrix test scoring hands to
\* decision_function and the matrix land scoring hands to decision_function
\* hold finite values only: every (x - mean) / std that is NaN or an
\* infinity has been replaced by zero.
C21_ClassifierReceivesOnlyFiniteValues ==
    /\ pcM = "sliced" => Finite(FitMatrix(species_bunch, global_mean, global_std))
    /\ pcM = "fitted" =>
          Finite(Standardize(species_bunch.raster_data_test, global_mean, global_std))
    /\ (pcM = "tested" /\ IdxInStack(LandIdx(rs, land_reference), stacked_raster_coverages))
          => Finite(LandInput)


-----------------------------------------------------------------------------
(* Claims about the raster of the land scores *)

\* the pixels <<r, c>> of the mask that are land
LandPixels ==
    {p \in (1..Height(land_reference)) \X (1..Width(land_reference)) :
        land_reference[p[1]][p[2]] = rs.positive_mask_val}

\* the lowest of the scores the classifier gives the land pixels
LowestLandScore ==
    CHOOSE s \in {PixelScore(p[1], p[2]) : p \in LandPixels} :
        \A p \in LandPixels : s <= PixelScore(p[1], p[2])

\* C22 as stated: in the raster predict_land returns, every land pixel
\* holds the score the classifier gives the covariates of that pixel, and
\* every pixel whose mask is neither the positive mask value nor zero holds
\* the lowest of the land pixels' scores.
C22_LandHoldsOwnScoreOthersTheLowest ==
    pcM = "landed" =>
        \A r \in 1..Height(Z) : \A c \in 1..Width(Z) :
            /\ land_reference[r][c] = rs.positive_mask_val => Z[r][c] = PixelScore(r, c)
            /\ land_reference[r][c] \notin {rs.positive_mask_val, 0}
                  => Z[r][c] = LowestLandScore

\* C22: in the raster predict_land returns, every pixel whose mask is
\* neither the positive mask value nor zero holds the lowest of the land
\* pixels' scores, and when the positive mask value is not zero every land
\* pixel holds the score the classifier gives the covariates of that pixel
\* (a land pixel whose mask is zero holds the no-data sentinel).
C22_NonZeroLandHoldsOwnScoreOthersTheLowest ==
    pcM = "landed" =>
        \A r \in 1..Height(Z) : \A c \in 1..Width(Z) :
            /\ land_reference[r][c] \notin {rs.positive_mask_val, 0}
                  => Z[r][c] = LowestLandScore
            /\ land_reference[r][c] = rs.positive_mask_val
                  => Z[r][c] = (IF rs.positive_mask_val = 0 THEN rs.no_data_val
                                ELSE PixelScore(r, c))

\* a raster was returned for a mask with two land pixels of different
\* scores and a pixel that is neither land nor zero
C22_Witness ==
    /\ pcM = "landed"
    /\ rs.positive_mask_val # 0
    /\ \E p \in LandPixels : \E q \in LandPixels :
          PixelScore(p[1], p[2]) < PixelScore(q[1], q[2])
    /\ \E r \in 1..Height(Z) : \E c \in 1..Width(Z) :
          /\ land_reference[r][c] \notin {rs.positive_mask_val, 0}
          /\ Z[r][c] = LowestLandScore


-----------------------------------------------------------------------------
(* Claims about the order of the folds *)

\* the names of the arrays a fold persists
FoldOutputs ==
    {"Land_Prediction", "Test_Prediction", "Coords_Train", "Coords_Test",
     "Species_Raster_Data_Train", "Species_Raster_Data_Test"}

\* the files hold every output of fold j, once, in the folder of fold j
PersistedIn(files, j) ==
    \A name \in FoldOutputs :
        Cardinality({f \in files : f.folder = j /\ f.filename = name}) = 1

FoldPersisted(j) == PersistedIn(disk.files, j)

\* a step of the run keeps the order of a fold: the folder of fold i is
\* KFold{i}, created when the fold begins; the fit comes after every
\* earlier fold has persisted its outputs and before any output of this
\* fold; test scoring follows the fit, land scoring follows test scoring,
\* and the outputs are persisted after land scoring, all of them into the
\* fold's own folder and none removed; the next fold begins only then
FoldStepsInOrder ==
    /\ disk'.folders # disk.folders =>
          /\ pcM = "fold" /\ fold >= 1
          /\ disk'.folders = disk.folders \cup {fold}
          /\ \A j \in 1..(fold - 1) : FoldPersisted(j)
    /\ Len(fits') # Len(fits) =>
          /\ pcM = "sliced" /\ pcM' = "fitted" /\ fold' = fold
          /\ Len(fits) = fold - 1 /\ Len(fits') = fold
          /\ fold \in disk.folders
          /\ \A j \in 1..(fold - 1) : FoldPersisted(j)
          /\ \A f \in disk.files : f.folder < fold
    /\ pcM' = "tested" =>
          /\ pcM = "fitted" /\ fold' = fold /\ Len(fits) = fold
          /\ Len(pred_test') = Len(kf[fold].test_index)
    /\ pcM' = "landed" =>
          /\ pcM = "tested" /\ fold' = fold
          /\ pred_test' = pred_test
          /\ Height(Z') = Height(stacked_raster_coverages[1])
    /\ disk'.files # disk.files =>
          /\ pcM = "landed"
          /\ disk.files \subseteq disk'.files
          /\ \A f \in disk'.files \ disk.files : f.folder = fold
          /\ PersistedIn(disk'.files, fold)
          /\ \A f \in disk.files : f.folder < fold
    /\ (fold' # fold /\ fold >= 1) =>
          /\ fold' = fold + 1
          /\ pcM = "landed"
          /\ PersistedIn(disk'.files, fold)

\* C23: folds run one after another; within fold i the order is fit, test
\* scoring, land scoring, then the persisting of the fold's outputs into
\* its own folder KFold{i}, i counted from 1; every output of fold i is
\* persisted before the fit of fold i + 1, and no fold writes into the
\* folder of another fold.
C23_FoldsRunInOrderIntoOwnFolders == [][FoldStepsInOrder]_vars

\* the second fold has been fitted: the first fold's outputs are in its
\* folder and the folder of the second fold is still empty
C23_Witness ==
    /\ pcM = "fitted"
    /\ fold = 2
    /\ Len(fits) = 2
    /\ FoldPersisted(1)
    /\ disk.folders = {1, 2}
    /\ \A f \in disk.files : f.folder = 1


-----------------------------------------------------------------------------
(* Claims about the end of a run after an error *)

\* the loop of get_rasters_from_dir hands the file at position i to
\* get_raster_array, which refuses it
ReadFails(i) == PairAt(filenames, i).filename.tif /\ ~PairAt(filenames, i).filepath.ok

\* nothing of a fold exists: no stack, no statistics, no fold begun, fitted
\* or written
NoFoldStarted ==
    /\ stacked_raster_coverages = <<>>
    /\ pcM = "reading"
    /\ fold = 0 /\ kf = Null
    /\ fits = <<>>
    /\ disk = [folders |-> {}, files |-> {}]

\* the run has ended with an exception
Aborted ==
    \/ pcD \in {"raised", "ValueError"}
    \/ pcM \in {"ValueError", "IndexError"}

\* after a failed layer there is no stack and no fold; after a failed step
\* of fold i no later fold has a folder, a fit or a file, and fold i itself
\* has written nothing
AbortLeavesNoLaterFold ==
    /\ (\E i \in 1..Len(filenames) : ReadFails(i)) =>
          /\ pcD \in {"walk", "raised"}
          /\ NoFoldStarted
    /\ \A i \in 1..pos : ~ReadFails(i)
    /\ pcD \in {"raised", "ValueError"} => NoFoldStarted
    /\ pcM \in {"ValueError", "IndexError"} =>
          /\ disk.folders \subseteq 1..fold
          /\ Len(fits) <= fold
          /\ \A f \in disk.files : f.folder < fold
          /\ Z = Null

\* C24: an error ends the run.  If a layer handed to get_raster_array fails
\* its validation, the folder yields no stack, not even of the layers read
\* before it, and no fold is started or written; if a step of fold i fails,
\* no step of a later fold is executed and no output of a later fold is
\* written: nothing changes any more.
C24_ErrorAbortsTheRun ==
    []AbortLeavesNoLaterFold /\ [][~Aborted]_vars

\* the second layer of the folder failed its validation after the first
\* was read: the layer read stays a list, no stack is made of it
C24_Witness ==
    /\ pcD = "raised"
    /\ Len(rasters) = 1
    /\ ReadFails(pos + 1)
    /\ stacked_raster_coverages = <<>>
    /\ pcM = "reading"


-----------------------------------------------------------------------------
(* Claims about the messages of the corrections *)

\* the occurrences whose value the border walk has replaced
WalkCorrections ==
    {i \in 1..Len(walkLog) :
        /\ Len(walkLog[i]) > 0
        /\ walkLog[i][Len(walkLog[i])].value # Sentinel}

\* the occurrences whose sentinel the residual fill has replaced
FillReplacements ==
    IF pcC = "filled" THEN {i \in 1..Len(fillHist[1]) : fillHist[1][i] = Sentinel}
    ELSE {}

\* the point of the cell the walk of occurrence i sampled last
CorrectedPoint(i) ==
    <<Long[i] + walkLog[i][Len(walkLog[i])].incx * rs.resolution,
      Lat[i] + walkLog[i][Len(walkLog[i])].incy * rs.resolution>>

\* every value the border walk replaced has its message, with the
\* occurrence's coordinate and the corrected one, and nothing else is printed
WalkCorrectionsLogged ==
    pcC \in {"treated", "filled"} =>
        /\ \A i \in WalkCorrections :
              \E n \in 1..Len(printed) :
                  /\ printed[n].changed_from = <<Long[i], Lat[i]>>
                  /\ printed[n].to = CorrectedPoint(i)
        /\ Len(printed) >= Cardinality(WalkCorrections)

\* C25: every value the border walk replaces has a message with the
\* original and the corrected coordinate, and every sentinel the residual
\* fill replaces by the mean has a message of its own: no extracted value is
\* changed without a message.
C25_EveryCorrectionIsLogged ==
    /\ WalkCorrectionsLogged
    /\ Len(printed) >= Cardinality(WalkCorrections) + Cardinality(FillReplacements)


-----------------------------------------------------------------------------
(* Claims about the mask values of the Grid *)

\* C26: a Grid that has been constructed holds the positive mask value of
\* its configuration as positive_mask_val and the negative mask value of
\* its configuration as negative_mask_val.
C26_MaskValuesFollowConfiguration ==
    GridBuilt =>
        /\ rs.positive_mask_val = cfg.positive_mask_val
        /\ rs.negative_mask_val = cfg.negative_mask_val


-----------------------------------------------------------------------------
(* Claims about the indices into the raster *)

\* the column is a column of the raster and the row index counts a row of
\* the raster from its southern edge, so that the pixel row -row_index is
\* that row and no row or column of the opposite edge
InsideRaster(arr, row_index, column_index) ==
    /\ 0 <= column_index /\ column_index < Width(arr)
    /\ 1 <= row_index /\ row_index <= Height(arr)

\* C27: for every occurrence inside the extent of the Grid, the indices of
\* the direct extraction and of every cell the border walk samples lie
\* inside the raster, and no index raises an IndexError.
C27_IndicesStayInsideRaster ==
    \A i \in 1..Len(ix) :
        InExtent(Long[i], Lat[i]) =>
            /\ pcC # "IndexError"
            /\ InsideRaster(raster_array, iy[i], ix[i])
            /\ i <= Len(walkLog) =>
                  \A j \in 1..Len(walkLog[i]) :
                      InsideRaster(raster_array, iy[i] + walkLog[i][j].incy,
                                   ix[i] + walkLog[i][j].incx)


-----------------------------------------------------------------------------
(* Claims about a save that cannot append *)

\* row i of matrix a begins with row i of matrix b
RowsBeginWith(a, b) ==
    /\ Height(a) = Height(b)
    /\ \A i \in 1..Height(b) :
          /\ Len(a[i]) >= Len(b[i])
          /\ SubSeq(a[i], 1, Len(b[i])) = b[i]

\* a save over a stored matrix keeps its rows and its columns: the matrix
\* stays as it is when the new columns have another number of rows, and
\* otherwise gains the new columns to the right of the stored ones
SaveKeepsStoredColumns ==
    stored.exists =>
        /\ stored'.exists
        /\ Height(stored'.array) = Height(stored.array)
        /\ RowsBeginWith(stored'.array, stored.array)
        /\ Height(saved'[Len(saved')]) # Height(stored.array)
              => stored'.array = stored.array

\* C28: a save that cannot append, the stored matrix having another number
\* of rows than the new columns, leaves the stored matrix unchanged: the
\* stored columns are never replaced by the new columns alone, and the
\* number of rows of the stored matrix never changes.
C28_FailedAppendLeavesStoredUnchanged == [][SaveKeepsStoredColumns]_vars


-----------------------------------------------------------------------------
(* Claims about the pages of the occurrence records *)

\* the loop has ended: it was left, or an exception left it
PagesEnded == pcP \in {"collected", "TypeError"}

\* the offset of every request is the number of records collected before
\* it, and a loop whose pages all succeeded has collected the result
\* sequence, every record once and in order
PagesFollowCollected ==
    /\ \A n \in 1..Len(requested) : requested[n].offset = requested[n].collected
    /\ (pcP = "collected" /\ status = 200) => df = remote

\* no request follows a response with endOfRecords or a status other than 200
NoRequestAfterLastPage ==
    (endOfRecords \/ status # 200) => requested' = requested

\* C29: the pagination loop ends once the service reports endOfRecords or
\* a status other than 200, and when every page succeeds it has collected
\* every record of the remote result sequence exactly once: every page is
\* requested at the offset that is the number of records collected so far.
C29_PagesCollectEveryRecordOnce ==
    /\ []PagesFollowCollected
    /\ [][NoRequestAfterLastPage]_vars
    /\ <>PagesEnded

=============================================================================
